---- MODULE Spec2Model ----
(***************************************************************************)
(* AsyncFlow: the server runtime of the discrete-event simulator.          *)
(*                                                                         *)
(* The model follows the SimPy event loop the runtimes are written         *)
(* against: a queue of scheduled events ordered by (time, priority,        *)
(* insertion), containers with FIFO get/put queues, a store with a FIFO    *)
(* of items, and generator processes that run from one yield to the next.  *)
(* Virtual time is counted in milliseconds.                                *)
(***************************************************************************)
EXTENDS Integers, Sequences, FiniteSets, TLC

\* Number of requests delivered to the server inbox in one run.
NumRequests == 3

Requests == 1..NumRequests

\* The dispatcher process; handler h serves request h.
Dispatcher == 0

\* Arrival instants (ms) of the requests at the server inbox.
ArrivalTimes == {0, 1, 6}

(***************************************************************************)
(* Endpoint steps                                                          *)
(***************************************************************************)
RamStep(mb) == [kind |-> "RAM", val |-> mb]

CpuStep(ms) == [kind |-> "CPU", val |-> ms]

IoStep(ms) == [kind |-> "IO", val |-> ms]

\* RAM(128) -> CPU(5 ms) -> IO(20 ms)
EpDefault == <<RamStep(128), CpuStep(5), IoStep(20)>>

\* RAM(64) -> IO(10 ms) -> IO(15 ms)
EpIoIo == <<RamStep(64), IoStep(10), IoStep(15)>>

\* RAM(64) -> IO(10 ms) -> CPU(5 ms)
EpIoCpu == <<RamStep(64), IoStep(10), CpuStep(5)>>

\* RAM(64) -> CPU(4 ms) -> CPU(4 ms)
EpCpuCpu == <<RamStep(64), CpuStep(4), CpuStep(4)>>

\* RAM(256) -> CPU(5 ms) -> IO(20 ms)
EpRam256 == <<RamStep(256), CpuStep(5), IoStep(20)>>

\* CPU(5 ms) -> IO(20 ms), no RAM step
EpCpuIo == <<CpuStep(5), IoStep(20)>>

\* The endpoint lists a server is configured with.
EndpointLists ==
    { <<EpDefault>>, <<EpIoIo>>, <<EpIoCpu>>, <<EpCpuCpu>>, <<EpRam256>>,
      <<EpCpuIo>>, <<EpDefault, EpCpuCpu>>, <<EpDefault, EpRam256>> }

(***************************************************************************)
(* Resource containers                                                     *)
(***************************************************************************)
\* simpy.Container(env, capacity=c, init=l)
Container(c, l) ==
    [capacity |-> c, level |-> l, get_queue |-> <<>>, put_queue |-> <<>>]

\* build_containers of app.runtime.types: the containers are created with
\* a capacity only, so SimPy's default init=0 applies.
build_containers(spec) ==
    [CPU |-> Container(spec.cpu_cores, 0), RAM |-> Container(spec.ram_mb, 0)]

\* build_containers of app.resources.server_containers, used by the server
\* runtime's tests and by the resource registry: containers start full.
build_containers_full(spec) ==
    [CPU |-> Container(spec.cpu_cores, spec.cpu_cores),
     RAM |-> Container(spec.ram_mb, spec.ram_mb)]

Builders == {"types", "server_containers"}

BuildWith(builder, spec) ==
    IF builder = "types" THEN build_containers(spec)
                         ELSE build_containers_full(spec)

\* Container._trigger_get: serve the get queue from its head, stop at the
\* first request the level cannot satisfy.
RECURSIVE TriggerGet(_, _)
TriggerGet(c, woken) ==
    IF c.get_queue = <<>> THEN [c |-> c, woken |-> woken]
    ELSE LET e == Head(c.get_queue) IN
         IF c.level >= e.amount
         THEN TriggerGet([c EXCEPT !.level = @ - e.amount,
                                   !.get_queue = Tail(@)],
                         Append(woken, e))
         ELSE [c |-> c, woken |-> woken]

\* Container._trigger_put: serve the put queue from its head, stop at the
\* first request that does not fit below the capacity.
RECURSIVE TriggerPut(_, _)
TriggerPut(c, woken) ==
    IF c.put_queue = <<>> THEN [c |-> c, woken |-> woken]
    ELSE LET e == Head(c.put_queue) IN
         IF c.capacity - c.level >= e.amount
         THEN TriggerPut([c EXCEPT !.level = @ + e.amount,
                                   !.put_queue = Tail(@)],
                         Append(woken, e))
         ELSE [c |-> c, woken |-> woken]

(***************************************************************************)
(* Event queue                                                             *)
(***************************************************************************)
\* A scheduled event: the process it resumes, what it is, and the resource
\* (or the inbox item) it carries.
Event(t, urgent, proc, kind, arg) ==
    [t |-> t, urgent |-> urgent, proc |-> proc, kind |-> kind, arg |-> arg]

\* a keeps its place ahead of a newly scheduled b
Before(a, b) ==
    \/ a.t < b.t
    \/ a.t = b.t /\ (a.urgent \/ ~b.urgent)

\* Environment.schedule: heap order (time, priority, insertion)
Schedule(q, e) ==
    LET k == Cardinality({i \in 1..Len(q) : Before(q[i], e)})
    IN SubSeq(q, 1, k) \o <<e>> \o SubSeq(q, k + 1, Len(q))

RECURSIVE ScheduleAll(_, _)
ScheduleAll(q, es) ==
    IF es = <<>> THEN q ELSE ScheduleAll(Schedule(q, Head(es)), Tail(es))

VARIABLES
    now,            \* env.now
    queue,          \* the environment's scheduled events
    res,            \* server_resources: [CPU, RAM] containers
    server_box,     \* items of the server inbox
    disp_wait,      \* the dispatcher's server_box.get() is pending
    handlers,       \* one _handle_request process per request
    started,        \* handlers in the order they began to run
    sink,           \* requests handed to out_edge.transport, with the time
    server_config,  \* [cpu_cores, ram_mb, endpoints]
    builder,        \* which build_containers made the containers
    arrival,        \* arrival time of each request at the inbox
    meter,          \* totals of container traffic
    ready_q,        \* ready_queue_len of the server
    io_q,           \* io_queue_len of the server
    rqs,            \* RequestState of each request: history, finish_time
    boxes,          \* items of client_box, lb_box and the server inboxes
    getting,        \* the nodes whose inbox get() is pending
    completed_box,  \* items of the client's completed store
    outer_edges,    \* the load balancer's ordered out-edge mapping
    round_robin_index,        \* LoadBalancerRuntime._round_robin_index
    concurrent_connections,   \* in-flight counter of each edge runtime
    removed,        \* mapping entries taken out by a server outage
    timeline,       \* event-injection markers still to be applied
    routed,         \* the routing decisions taken by the load balancer
    crashed,        \* an exception left a process and ended env.run()
    edges_spike,    \* the live additive spike of each edge
    edges_timeline, \* edge-spike markers still to be applied
    sent,           \* the transports started, with the delay they drew
    net_config,     \* [algorithms, lossy, events]
    gen_config,     \* [runner, source, script]: the arrival loop and its gaps
    sampler,        \* the locals of the gap iterator
    total_requests, \* total_request_per_time_period["total_requests"]
    elapsed,        \* env.now at each gap the arrival loop has waited out
    received,       \* the requests handed to the generator's out-edge
    sim_settings,   \* [sample_period_s, total_simulation_time, enabled]
    enabled_metrics,\* the sampled series of each entity, by metric
    sampled_at,     \* env.now at each tick of the collector
    payload,        \* the input handed to the schemas
    verdict,        \* what each stage of the validation answered
    rqs_clock,      \* the client's (start, finish) of each completed request
    entities,       \* the servers and edges handed to the analyzer
    analyzer,       \* the caches of the ResultsAnalyzer
    returned,       \* what each getter of the analyzer returned
    raised,         \* the exception that ended the reading, if any
    seeds,          \* the seed of the generator handed to each of two runs
    runs            \* the arrival side of each of the two runs

srvvars == <<res, server_box, disp_wait, handlers, started, sink,
             server_config, builder, arrival, meter, ready_q, io_q>>

netvars == <<rqs, boxes, getting, completed_box, outer_edges,
             round_robin_index, concurrent_connections, removed, timeline,
             routed, crashed, edges_spike, edges_timeline, sent,
             net_config>>

genvars == <<gen_config, sampler, total_requests, elapsed, received>>

colvars == <<sim_settings, enabled_metrics, sampled_at>>

valvars == <<payload, verdict>>

resvars == <<rqs_clock, entities, analyzer, returned, raised>>

detvars == <<seeds, runs>>

vars == <<now, queue, srvvars, netvars, genvars, colvars, valvars, resvars, detvars>>

\* The mutable part of the state as one value.
Cur ==
    [now |-> now, queue |-> queue, res |-> res, server_box |-> server_box,
     disp_wait |-> disp_wait, handlers |-> handlers, started |-> started,
     sink |-> sink, meter |-> meter, ready_q |-> ready_q, io_q |-> io_q]

Commit(w) ==
    /\ now' = w.now
    /\ queue' = w.queue
    /\ res' = w.res
    /\ server_box' = w.server_box
    /\ disp_wait' = w.disp_wait
    /\ handlers' = w.handlers
    /\ started' = w.started
    /\ sink' = w.sink
    /\ meter' = w.meter
    /\ ready_q' = w.ready_q
    /\ io_q' = w.io_q
    /\ UNCHANGED <<server_config, builder, arrival>>
    /\ UNCHANGED <<netvars, genvars, colvars, valvars, resvars, detvars>>

\* Environment.step: pop the next event and advance the clock to it.
Pop(w) == [w EXCEPT !.now = Head(w.queue).t, !.queue = Tail(w.queue)]

RECURSIVE SumAmounts(_)
SumAmounts(es) ==
    IF es = <<>> THEN 0 ELSE Head(es).amount + SumAmounts(Tail(es))

\* The handlers after the get requests in es have been granted.
RECURSIVE Granted(_, _, _)
Granted(hs, name, es) ==
    IF es = <<>> THEN hs
    ELSE Granted([hs EXCEPT ![Head(es).proc].held[name] = @ + Head(es).amount],
                 name, Tail(es))

\* The handlers after the put requests in es have been accepted.
RECURSIVE Returned(_, _, _)
Returned(hs, name, es) ==
    IF es = <<>> THEN hs
    ELSE Returned([hs EXCEPT ![Head(es).proc].held[name] = @ - Head(es).amount],
                  name, Tail(es))

\* _trigger_get on container name: every get it grants becomes an event at
\* the current time.
ServeGets(w, name) ==
    LET r == TriggerGet(w.res[name], <<>>)
    IN [w EXCEPT
          !.res[name] = r.c,
          !.queue = ScheduleAll(@, [i \in 1..Len(r.woken) |->
                       Event(w.now, FALSE, r.woken[i].proc, "get", name)]),
          !.handlers = Granted(@, name, r.woken),
          !.meter.got[name] = @ + SumAmounts(r.woken)]

\* _trigger_put on container name: every put it accepts becomes an event at
\* the current time.
ServePuts(w, name) ==
    LET r == TriggerPut(w.res[name], <<>>)
    IN [w EXCEPT
          !.res[name] = r.c,
          !.queue = ScheduleAll(@, [i \in 1..Len(r.woken) |->
                       Event(w.now, FALSE, r.woken[i].proc, "put", name)]),
          !.handlers = Returned(@, name, r.woken),
          !.meter.put[name] = @ + SumAmounts(r.woken)]

\* Process p has a request in the get queue of container name.
InGetQueue(w, name, p) ==
    \E i \in 1..Len(w.res[name].get_queue) : w.res[name].get_queue[i].proc = p

\* container.get(n) called by process p; waited tells whether the request
\* was left in the queue by the call.
GetRes(w, name, p, n) ==
    LET w1 == ServeGets([w EXCEPT
                 !.res[name].get_queue = Append(@, [proc |-> p, amount |-> n]),
                 !.handlers[p].gets[name] = @ + 1,
                 !.meter.get_calls[name] = @ + 1],
              name)
    IN [w1 EXCEPT !.handlers[p].waited = InGetQueue(w1, name, p)]

\* container.put(n) called by process p
PutRes(w, name, p, n) ==
    ServePuts([w EXCEPT
                 !.res[name].put_queue = Append(@, [proc |-> p, amount |-> n]),
                 !.handlers[p].puts[name] = @ + 1,
                 !.meter.put_calls[name] = @ + 1],
              name)

\* The callbacks a container event runs before it resumes its process:
\* a get event re-examines the put queue, a put event the get queue.
Callbacks(w, e) ==
    IF e.kind = "get" THEN ServePuts(w, e.arg)
    ELSE IF e.kind = "put" THEN ServeGets(w, e.arg)
    ELSE w

\* env.timeout(d) yielded by process p
Timeout(w, p, d) ==
    [w EXCEPT !.queue = Schedule(@, Event(w.now + d, FALSE, p, "timeout", "none"))]

\* server_box.get() called by the dispatcher
StoreGet(w) ==
    IF w.server_box # <<>>
    THEN [w EXCEPT !.server_box = Tail(@),
                   !.queue = Schedule(@, Event(w.now, FALSE, Dispatcher,
                                               "store_get", Head(w.server_box)))]
    ELSE [w EXCEPT !.disp_wait = TRUE]

\* Store._trigger_get, the callback of a put event of the inbox
StoreServeGet(w) ==
    IF w.disp_wait /\ w.server_box # <<>>
    THEN [w EXCEPT !.server_box = Tail(@),
                   !.disp_wait = FALSE,
                   !.queue = Schedule(@, Event(w.now, FALSE, Dispatcher,
                                               "store_get", Head(w.server_box)))]
    ELSE w

(***************************************************************************)
(* ServerRuntime._handle_request                                           *)
(***************************************************************************)
Endpoint(w, h) == server_config.endpoints[w.handlers[h].ep]

\* total_ram: the sum of necessary_ram over the RAM steps of the endpoint
RECURSIVE TotalRam(_)
TotalRam(steps) ==
    IF steps = <<>> THEN 0
    ELSE (IF Head(steps).kind = "RAM" THEN Head(steps).val ELSE 0)
         + TotalRam(Tail(steps))

\* The first step at or after i that yields (RAM steps do nothing in the loop)
RECURSIVE NextIdx(_, _)
NextIdx(steps, i) ==
    IF i > Len(steps) THEN i
    ELSE IF steps[i].kind = "RAM" THEN NextIdx(steps, i + 1)
    ELSE i

\* self.out_edge.transport(state): the handler ends
Transport(w, h) ==
    [w EXCEPT !.handlers[h].pc = "done",
              !.sink = Append(@, [id |-> h, t |-> w.now])]

\* Finish with the release of the RAM left out.
Finish_NoRamRelease(w, h) == Transport(w, h)

\* After the step loop: release the RAM, then forward.
Finish(w, h) ==
    IF w.handlers[h].total_ram # 0
    THEN PutRes([w EXCEPT !.handlers[h].pc = "ram_put"],
                "RAM", h, w.handlers[h].total_ram)
    ELSE Transport(w, h)

\* The step loop from index i up to its next yield.
Continue(w, h, i) ==
    LET steps == Endpoint(w, h)
        j == NextIdx(steps, i)
    IN IF j > Len(steps) THEN Finish(w, h)
       ELSE IF steps[j].kind = "CPU"
       THEN GetRes([w EXCEPT !.handlers[h].pc = "cpu_get",
                             !.handlers[h].step = j],
                   "CPU", h, 1)
       ELSE Timeout([w EXCEPT !.handlers[h].pc = "io_wait",
                              !.handlers[h].step = j],
                    h, steps[j].val)

\* Begin with the step loop entered before the RAM has been asked for.
Begin_NoRamGate(w, h, idx) ==
    Continue([w EXCEPT !.handlers[h].hop = w.now,
                       !.handlers[h].ep = idx,
                       !.handlers[h].total_ram = TotalRam(server_config.endpoints[idx]),
                       !.started = Append(@, h)],
             h, 1)

\* Begin with a fast path: RAM that is free is taken from the container
\* directly, without queueing behind the waiters.
Begin_TakesFreeRam(w, h, idx) ==
    LET total_ram == TotalRam(server_config.endpoints[idx])
        w1 == [w EXCEPT !.handlers[h].hop = w.now,
                        !.handlers[h].ep = idx,
                        !.handlers[h].total_ram = total_ram,
                        !.started = Append(@, h)]
    IN IF total_ram # 0 /\ w.res.RAM.level >= total_ram
       THEN Continue([w1 EXCEPT !.res.RAM.level = @ - total_ram,
                                !.handlers[h].held.RAM = @ + total_ram,
                                !.handlers[h].gets.RAM = @ + 1,
                                !.meter.got.RAM = @ + total_ram,
                                !.meter.get_calls.RAM = @ + 1],
                     h, 1)
       ELSE IF total_ram # 0
       THEN GetRes([w1 EXCEPT !.handlers[h].pc = "ram_get"], "RAM", h, total_ram)
       ELSE Continue(w1, h, 1)

\* From the start of the generator to its first yield, with endpoint idx.
Begin(w, h, idx) ==
    LET total_ram == TotalRam(server_config.endpoints[idx])
        w1 == [w EXCEPT !.handlers[h].hop = w.now,
                        !.handlers[h].ep = idx,
                        !.handlers[h].total_ram = total_ram,
                        !.started = Append(@, h)]
    IN IF total_ram # 0
       THEN GetRes([w1 EXCEPT !.handlers[h].pc = "ram_get"], "RAM", h, total_ram)
       ELSE Continue(w1, h, 1)

\* The event the environment processes next.
Ev == Head(queue)

At(kind) == queue # <<>> /\ Ev.kind = kind

\* The upstream edge delivers a request: target_box.put(state)
Arrive ==
    /\ At("arrive")
    /\ LET w == Pop(Cur)
       IN Commit([w EXCEPT
                    !.server_box = Append(@, Ev.proc),
                    !.queue = Schedule(@, Event(w.now, FALSE, Ev.proc,
                                                "store_put", "none"))])

\* The put event of the inbox is processed: a waiting get is served.
Delivered ==
    /\ At("store_put")
    /\ Commit(StoreServeGet(Pop(Cur)))

\* ServerRuntime.start: the dispatcher runs to its first server_box.get()
DispatcherStart ==
    /\ At("init") /\ Ev.proc = Dispatcher
    /\ Commit(StoreGet(Pop(Cur)))

\* Dispatch with the handler run inside the loop: the next server_box.get()
\* is not issued when the handler is spawned.
Dispatch_Sequential ==
    /\ At("store_get")
    /\ LET w == Pop(Cur)
           h == Ev.arg
       IN Commit([w EXCEPT
                    !.handlers[h].pc = "start",
                    !.queue = Schedule(@, Event(w.now, TRUE, h, "init", "none"))])

\* ServerRuntime._dispatcher: one turn of the loop
Dispatch ==
    /\ At("store_get")
    /\ LET w == Pop(Cur)
           h == Ev.arg
       IN Commit(StoreGet([w EXCEPT
                    !.handlers[h].pc = "start",
                    !.queue = Schedule(@, Event(w.now, TRUE, h, "init", "none"))]))

HandlerStart ==
    /\ At("init") /\ Ev.proc # Dispatcher
    /\ \E idx \in 1..Len(server_config.endpoints) :
          Commit(Begin(Pop(Cur), Ev.proc, idx))

RamGranted ==
    /\ At("get") /\ Ev.arg = "RAM"
    /\ Commit(Continue(Callbacks(Pop(Cur), Ev), Ev.proc, 1))

CpuGranted ==
    /\ At("get") /\ Ev.arg = "CPU"
    /\ LET w == Callbacks(Pop(Cur), Ev)
           h == Ev.proc
       IN Commit(Timeout([w EXCEPT !.handlers[h].pc = "cpu_run"], h,
                         Endpoint(w, h)[w.handlers[h].step].val))

\* CpuStepDone with the core kept across a following I/O step.
CpuStepDone_HoldIntoIo ==
    /\ At("timeout") /\ handlers[Ev.proc].pc = "cpu_run"
    /\ LET h == Ev.proc
           steps == server_config.endpoints[handlers[h].ep]
           j == NextIdx(steps, handlers[h].step + 1)
       IN IF j <= Len(steps) /\ steps[j].kind = "IO"
          THEN Commit(Continue(Pop(Cur), h, j))
          ELSE Commit(PutRes([Pop(Cur) EXCEPT !.handlers[h].pc = "cpu_put"],
                             "CPU", h, 1))

\* CpuStepDone with the release left out after the last step of the endpoint.
CpuStepDone_NoFinalRelease ==
    /\ At("timeout") /\ handlers[Ev.proc].pc = "cpu_run"
    /\ LET h == Ev.proc
           steps == server_config.endpoints[handlers[h].ep]
       IN IF NextIdx(steps, handlers[h].step + 1) > Len(steps)
          THEN Commit(Finish(Pop(Cur), h))
          ELSE Commit(PutRes([Pop(Cur) EXCEPT !.handlers[h].pc = "cpu_put"],
                             "CPU", h, 1))

\* The timeout of a CPU step has elapsed: the core is put back.
CpuStepDone ==
    /\ At("timeout") /\ handlers[Ev.proc].pc = "cpu_run"
    /\ LET h == Ev.proc
       IN Commit(PutRes([Pop(Cur) EXCEPT !.handlers[h].pc = "cpu_put"],
                        "CPU", h, 1))

CpuReleased ==
    /\ At("put") /\ Ev.arg = "CPU"
    /\ Commit(Continue(Callbacks(Pop(Cur), Ev), Ev.proc,
                       handlers[Ev.proc].step + 1))

IoStepDone ==
    /\ At("timeout") /\ handlers[Ev.proc].pc = "io_wait"
    /\ Commit(Continue(Pop(Cur), Ev.proc, handlers[Ev.proc].step + 1))

RamReleased ==
    /\ At("put") /\ Ev.arg = "RAM"
    /\ Commit(Transport(Callbacks(Pop(Cur), Ev), Ev.proc))

(***************************************************************************)
(* ServerRuntime with the ready and I/O queue gauges: the handler keeps    *)
(* one CPU token over a burst of CPU steps and counts itself in ready_q    *)
(* while it waits for a core and in io_q while it is in an I/O segment.    *)
(***************************************************************************)
\* Leave the I/O queue, if the handler is in it.
AF_LeaveIo(w, h) ==
    IF w.handlers[h].in_io
    THEN [w EXCEPT !.io_q = @ - 1, !.handlers[h].in_io = FALSE]
    ELSE w

\* AF_EnterIo with the handler counted at every I/O step, whether or not it
\* is already in the I/O queue.
AF_EnterIo_CountEveryStep(w, h, j) ==
    Timeout([w EXCEPT !.io_q = @ + 1,
                      !.handlers[h].in_io = TRUE,
                      !.handlers[h].pc = "io_wait",
                      !.handlers[h].step = j],
            h, server_config.endpoints[w.handlers[h].ep][j].val)

\* The I/O step j once no core is held: enter the I/O queue unless already
\* in it, then timeout(io_waiting_time).
AF_EnterIo(w, h, j) ==
    Timeout([w EXCEPT !.io_q = IF w.handlers[h].in_io THEN @ ELSE @ + 1,
                      !.handlers[h].in_io = TRUE,
                      !.handlers[h].pc = "io_wait",
                      !.handlers[h].step = j],
            h, server_config.endpoints[w.handlers[h].ep][j].val)

\* The end of the endpoint once no core is held.
AF_End(w, h) == Finish(AF_LeaveIo(w, h), h)

\* AF_AcquireCore with every CPU get counted in ready_q, blocking or not.
AF_AcquireCore_CountAlways(w, h, j) ==
    LET w1 == GetRes([w EXCEPT !.handlers[h].pc = "cpu_get",
                               !.handlers[h].step = j],
                     "CPU", h, 1)
    IN [w1 EXCEPT !.ready_q = @ + 1, !.handlers[h].in_ready = TRUE]

\* The CPU get of step j: the handler counts itself in ready_q when the get
\* has to wait.
AF_AcquireCore(w, h, j) ==
    LET w1 == GetRes([w EXCEPT !.handlers[h].pc = "cpu_get",
                               !.handlers[h].step = j],
                     "CPU", h, 1)
    IN IF InGetQueue(w1, "CPU", h)
       THEN [w1 EXCEPT !.ready_q = @ + 1, !.handlers[h].in_ready = TRUE]
       ELSE w1

\* The step loop from index i up to its next yield.
AF_Continue(w, h, i) ==
    LET steps == Endpoint(w, h)
        j == NextIdx(steps, i)
        locked == w.handlers[h].core_locked
        unlock == [w EXCEPT !.handlers[h].core_locked = FALSE,
                            !.handlers[h].pc = "cpu_put",
                            !.handlers[h].step = j]
    IN IF j > Len(steps)
       THEN IF locked THEN PutRes(unlock, "CPU", h, 1) ELSE AF_End(w, h)
       ELSE IF steps[j].kind = "CPU"
       THEN IF locked
            THEN Timeout([w EXCEPT !.handlers[h].pc = "cpu_run",
                                   !.handlers[h].step = j],
                         h, steps[j].val)
            ELSE AF_AcquireCore(AF_LeaveIo(w, h), h, j)
       ELSE IF locked THEN PutRes(unlock, "CPU", h, 1) ELSE AF_EnterIo(w, h, j)

\* From the start of the generator to its first yield, with endpoint idx.
AF_Begin(w, h, idx) ==
    LET total_ram == TotalRam(server_config.endpoints[idx])
        w1 == [w EXCEPT !.handlers[h].hop = w.now,
                        !.handlers[h].ep = idx,
                        !.handlers[h].total_ram = total_ram,
                        !.started = Append(@, h)]
    IN IF total_ram # 0
       THEN GetRes([w1 EXCEPT !.handlers[h].pc = "ram_get"], "RAM", h, total_ram)
       ELSE AF_Continue(w1, h, 1)

AF_HandlerStart ==
    /\ At("init") /\ Ev.proc # Dispatcher
    /\ \E idx \in 1..Len(server_config.endpoints) :
          Commit(AF_Begin(Pop(Cur), Ev.proc, idx))

AF_RamGranted ==
    /\ At("get") /\ Ev.arg = "RAM"
    /\ Commit(AF_Continue(Callbacks(Pop(Cur), Ev), Ev.proc, 1))

\* The core is acquired: leave ready_q if counted there, run the CPU step.
AF_CpuGranted ==
    /\ At("get") /\ Ev.arg = "CPU"
    /\ LET w == Callbacks(Pop(Cur), Ev)
           h == Ev.proc
       IN Commit(Timeout([w EXCEPT
                    !.ready_q = IF w.handlers[h].in_ready THEN @ - 1 ELSE @,
                    !.handlers[h].in_ready = FALSE,
                    !.handlers[h].core_locked = TRUE,
                    !.handlers[h].pc = "cpu_run"],
                 h, Endpoint(w, h)[w.handlers[h].step].val))

\* A CPU step has elapsed: the token is kept for what follows.
AF_CpuStepDone ==
    /\ At("timeout") /\ handlers[Ev.proc].pc = "cpu_run"
    /\ Commit(AF_Continue(Pop(Cur), Ev.proc, handlers[Ev.proc].step + 1))

\* The core has been put back, before an I/O step or at the end.
AF_CpuReleased ==
    /\ At("put") /\ Ev.arg = "CPU"
    /\ LET w == Callbacks(Pop(Cur), Ev)
           h == Ev.proc
       IN IF handlers[h].step > Len(Endpoint(w, h))
          THEN Commit(AF_End(w, h))
          ELSE Commit(AF_EnterIo(w, h, handlers[h].step))

AF_IoStepDone ==
    /\ At("timeout") /\ handlers[Ev.proc].pc = "io_wait"
    /\ Commit(AF_Continue(Pop(Cur), Ev.proc, handlers[Ev.proc].step + 1))

(***************************************************************************)
(* Client, edges, load balancer and event injection: the topology          *)
(*                                                                         *)
(*   client --c-lb--> lb --lb-e1--> srv-1 --s1-c--> client                 *)
(*                       --lb-e2--> srv-2 --s2-c--> client                 *)
(*                                                                         *)
(* A further server that no load balancer covers keeps the payload valid   *)
(* while srv-1 and srv-2 are both down; it receives no traffic.            *)
(***************************************************************************)
Servers == {"srv-1", "srv-2"}

Nodes == {"client", "lb"} \cup Servers

Edges == {"g-c", "c-lb", "lb-e1", "lb-e2", "s1-c", "s2-c"}

\* edge_config.target
Target(e) ==
    CASE e = "c-lb" -> "lb"
      [] e = "g-c" -> "client"
      [] e = "lb-e1" -> "srv-1"
      [] e = "lb-e2" -> "srv-2"
      [] e = "s1-c" -> "client"
      [] e = "s2-c" -> "client"

\* out_edge of the client and of the servers
OutEdge(n) ==
    CASE n = "client" -> "c-lb"
      [] n = "srv-1" -> "s1-c"
      [] n = "srv-2" -> "s2-c"

\* The load balancer's mapping as built: edge id -> EdgeRuntime object,
\* in insertion order.
LbOutEdges == <<[id |-> "lb-e1", rt |-> 1], [id |-> "lb-e2", rt |-> 2]>>

LbEdgeIds == {LbOutEdges[i].id : i \in 1..Len(LbOutEdges)}

\* The transit times (ms) general_sampler can return on an edge.
Latency(e) ==
    CASE e = "c-lb" -> {1, 3}
      [] e \in LbEdgeIds -> {1, 4}
      [] OTHER -> {1}

\* The endpoint of srv-1 and srv-2: one I/O step, no RAM.
SrvEndpoint == <<IoStep(2)>>

\* A SERVER_DOWN / SERVER_UP event on server s over [a, b)
Outage(s, a, b) == [target_id |-> s, t_start |-> a, t_end |-> b]

EventLists ==
    { <<>>,
      <<Outage("srv-1", 2, 6)>>,
      <<Outage("srv-1", 2, 3), Outage("srv-2", 3, 6)>>,
      <<Outage("srv-1", 2, 6), Outage("srv-2", 3, 5)>> }

\* A NETWORK_SPIKE_START / NETWORK_SPIKE_END event adding d ms to edge e
\* over [a, b)
Spike(e, a, b, d) == [target_id |-> e, t_start |-> a, t_end |-> b, spike_s |-> d]

\* The superposed pair of scenario S6, in tenths of a second
SpikeA == Spike("lb-e1", 1, 5, 3)

SpikeB == Spike("lb-e1", 2, 3, 2)

\* Event lists with edge spikes: the superposed pair in both listing
\* orders, a spike ending where two others start, a spike next to an
\* outage, and an outage of srv-3, a server no load balancer edge leads to.
SpikeEventLists ==
    { <<SpikeA, SpikeB>>,
      <<SpikeB, SpikeA>>,
      <<Spike("lb-e1", 1, 3, 4), Spike("lb-e1", 3, 6, 2), Spike("lb-e1", 3, 7, 1)>>,
      <<Outage("srv-1", 1, 3), Spike("s2-c", 4, 6, 3)>>,
      <<Outage("srv-3", 1, 4), Spike("c-lb", 0, 2, 2)>> }

\* The latest t_end of the event lists
Horizon == 7

Algorithms == {"round_robin", "least_connections"}

\* The sets of edges configured with a positive dropout_rate.
LossyChoices == { {}, {"lb-e1"}, {"c-lb"} }

\* The payloads of the runs: every pairing of an algorithm, a set of lossy
\* edges and a list of outages, and each list with spikes on its own.
NetConfigs ==
    [algorithms : Algorithms, lossy : LossyChoices, events : EventLists]
    \cup [algorithms : {"round_robin"}, lossy : {{}}, events : SpikeEventLists]

IsSpike(ev) == "spike_s" \in DOMAIN ev

\* The events of one family, in listing order
RECURSIVE SpikeEvents(_)
SpikeEvents(events) ==
    IF events = <<>> THEN <<>>
    ELSE (IF IsSpike(Head(events)) THEN <<Head(events)>> ELSE <<>>)
         \o SpikeEvents(Tail(events))

RECURSIVE ServerEvents(_)
ServerEvents(events) ==
    IF events = <<>> THEN <<>>
    ELSE (IF IsSpike(Head(events)) THEN <<>> ELSE <<Head(events)>>)
         \o ServerEvents(Tail(events))

IsEnd(kind) == kind \in {"SERVER_UP", "NETWORK_SPIKE_END"}

\* Markers ordered by their time alone.
Precedes_ByTimeOnly(a, b) == a.t < b.t

\* Marker a is applied before marker b: earlier, or END before START at
\* the same instant (SERVER_UP before SERVER_DOWN, spike END before spike
\* START).
Precedes(a, b) ==
    \/ a.t < b.t
    \/ a.t = b.t /\ IsEnd(a.kind) /\ ~IsEnd(b.kind)

\* A marker put at the end of the timeline, in listing order.
InsertMarker_Appends(tl, m) == Append(tl, m)

InsertMarker(tl, m) ==
    LET k == Cardinality({i \in 1..Len(tl) : ~Precedes(m, tl[i])})
    IN SubSeq(tl, 1, k) \o <<m>> \o SubSeq(tl, k + 1, Len(tl))

\* The markers of the server events, in the order they are applied.
RECURSIVE BuildTimeline(_)
BuildTimeline(events) ==
    IF events = <<>> THEN <<>>
    ELSE LET ev == Head(events)
         IN InsertMarker(
              InsertMarker(BuildTimeline(Tail(events)),
                           [t |-> ev.t_start, kind |-> "SERVER_DOWN",
                            target_id |-> ev.target_id]),
              [t |-> ev.t_end, kind |-> "SERVER_UP",
               target_id |-> ev.target_id])

\* The markers of the spike events, in the order they are applied.
RECURSIVE BuildEdgesTimeline(_)
BuildEdgesTimeline(events) ==
    IF events = <<>> THEN <<>>
    ELSE LET ev == Head(events)
         IN InsertMarker(
              InsertMarker(BuildEdgesTimeline(Tail(events)),
                           [t |-> ev.t_start, kind |-> "NETWORK_SPIKE_START",
                            target_id |-> ev.target_id, delta |-> ev.spike_s]),
              [t |-> ev.t_end, kind |-> "NETWORK_SPIKE_END",
               target_id |-> ev.target_id, delta |-> ev.spike_s])

\* The mutable part of the network state as one value.
NCur ==
    [now |-> now, queue |-> queue, rqs |-> rqs, boxes |-> boxes,
     getting |-> getting, completed_box |-> completed_box,
     outer_edges |-> outer_edges, round_robin_index |-> round_robin_index,
     concurrent_connections |-> concurrent_connections,
     removed |-> removed, timeline |-> timeline, routed |-> routed,
     crashed |-> crashed, edges_spike |-> edges_spike,
     edges_timeline |-> edges_timeline, sent |-> sent]

NCommit(w) ==
    /\ now' = w.now
    /\ queue' = w.queue
    /\ rqs' = w.rqs
    /\ boxes' = w.boxes
    /\ getting' = w.getting
    /\ completed_box' = w.completed_box
    /\ outer_edges' = w.outer_edges
    /\ round_robin_index' = w.round_robin_index
    /\ concurrent_connections' = w.concurrent_connections
    /\ removed' = w.removed
    /\ timeline' = w.timeline
    /\ routed' = w.routed
    /\ crashed' = w.crashed
    /\ edges_spike' = w.edges_spike
    /\ edges_timeline' = w.edges_timeline
    /\ sent' = w.sent
    /\ UNCHANGED <<net_config, srvvars, genvars, colvars, valvars, resvars, detvars>>

\* env.run() goes on to the next event of the given kind.
NAt(kind) == ~crashed /\ At(kind)

\* RequestState.record_hop
Hop(type, id, t) == [type |-> type, id |-> id, t |-> t, dropped |-> FALSE]

record_hop(w, r, type, id) ==
    [w EXCEPT !.rqs[r].history = Append(@, Hop(type, id, w.now))]

\* Store.put(r) on the inbox of node n, by the transport on edge e: the item
\* is in the store at once and the put event is scheduled.
BoxPut(w, n, r, e) ==
    [w EXCEPT !.boxes[n] = Append(@, r),
              !.queue = Schedule(@, Event(w.now, FALSE, r, "box_put", e))]

\* Store._trigger_get, the callback of a put event on the inbox of node n
BoxTriggerGet(w, n) ==
    IF n \in w.getting /\ w.boxes[n] # <<>>
    THEN [w EXCEPT !.boxes[n] = Tail(@),
                   !.getting = @ \ {n},
                   !.queue = Schedule(@, Event(w.now, FALSE, Head(w.boxes[n]),
                                               "box_get", n))]
    ELSE w

\* Store.get() on its inbox, by the forwarder of node n
BoxGet(w, n) ==
    IF w.boxes[n] # <<>>
    THEN [w EXCEPT !.boxes[n] = Tail(@),
                   !.queue = Schedule(@, Event(w.now, FALSE, Head(w.boxes[n]),
                                               "box_get", n))]
    ELSE [w EXCEPT !.getting = @ \cup {n}]

\* EdgeRuntime.transport: a _deliver process is created for the request.
EdgeTransport(w, e, r) ==
    [w EXCEPT !.queue = Schedule(@, Event(w.now, TRUE, r, "deliver", e))]

(***************************************************************************)
(* EdgeRuntime._deliver                                                    *)
(***************************************************************************)
\* The connection counter of the edge runtime (concurrent_connections of
\* app.runtime.actors.edge): up when a transport that is not dropped
\* starts, down after its delivery.
Connect(w, e) == [w EXCEPT !.concurrent_connections[e] = @ + 1]

\* The counter of an edge left as it is when a transport ends.
Disconnect_Forgets(w, e) == w

Disconnect(w, e) == [w EXCEPT !.concurrent_connections[e] = @ - 1]

\* uniform_variable < dropout_rate: the outcomes the draw can have on edge e
DropDraws(e) == IF e \in net_config.lossy THEN {TRUE, FALSE} ELSE {FALSE}

\* The sampled transit time is waited for.
Transit(w, e, r, d) ==
    [w EXCEPT !.queue = Schedule(@, Event(w.now + d, FALSE, r, "transit", e))]

\* Drop without the return: the hop is recorded and the transport goes on.
Drop_GoesOn(w, e, r) ==
    Transit(Connect(
              [w EXCEPT !.rqs[r].finish_time = <<w.now>>,
                        !.rqs[r].history =
                           Append(@, [Hop("network_connection", e, w.now)
                                        EXCEPT !.dropped = TRUE])], e),
            e, r, 1)

\* The dropped branch: finish_time, the "<edge id>-dropped" hop, return.
Drop(w, e, r) ==
    [w EXCEPT !.rqs[r].finish_time = <<w.now>>,
              !.rqs[r].history =
                 Append(@, [Hop("network_connection", e, w.now)
                              EXCEPT !.dropped = TRUE])]

\* The transport is noted with the base latency it drew and the spike of
\* the edge at that instant.
Sent(w, e, r, d) ==
    [w EXCEPT !.sent = Append(@, [rq |-> r, edge |-> e, t |-> w.now,
                                  base |-> d, spike |-> w.edges_spike[e]])]

\* The _deliver process with the spike of the edge left out of the delay.
DeliverStart_BaseOnly ==
    /\ NAt("deliver")
    /\ LET r == Ev.proc
           e == Ev.arg
           w == Pop(NCur)
       IN \E drop \in DropDraws(e), d \in Latency(e) :
             IF drop THEN NCommit(Drop(w, e, r))
             ELSE NCommit(Transit(Connect(Sent(w, e, r, d), e), e, r, d))

\* The _deliver process starts: the drop draw, then the transit time, the
\* sampled latency plus the spike the edge has at this instant.
DeliverStart ==
    /\ NAt("deliver")
    /\ LET r == Ev.proc
           e == Ev.arg
           w == Pop(NCur)
       IN \E drop \in DropDraws(e), d \in Latency(e) :
             IF drop THEN NCommit(Drop(w, e, r))
             ELSE NCommit(Transit(Connect(Sent(w, e, r, d), e), e, r,
                                  d + w.edges_spike[e]))

\* Arrival with the put skipped when the edge has left the load balancer's
\* mapping in the meantime.
DeliverArrive_ChecksMapping ==
    /\ NAt("transit")
    /\ LET r == Ev.proc
           e == Ev.arg
           w == record_hop(Pop(NCur), r, "network_connection", e)
       IN IF e \in LbEdgeIds
             /\ ~\E i \in 1..Len(outer_edges) : outer_edges[i].id = e
          THEN NCommit(Disconnect(w, e))
          ELSE NCommit(BoxPut(w, Target(e), r, e))

\* The transit time has elapsed: the edge hop, then target_box.put(state).
DeliverArrive ==
    /\ NAt("transit")
    /\ LET r == Ev.proc
           e == Ev.arg
           w == record_hop(Pop(NCur), r, "network_connection", e)
       IN NCommit(BoxPut(w, Target(e), r, e))

\* The put event is processed: a waiting get of the target is served and
\* the _deliver process ends.
DeliverDone ==
    /\ NAt("box_put") /\ Ev.arg \in Edges
    /\ NCommit(Disconnect(BoxTriggerGet(Pop(NCur), Target(Ev.arg)), Ev.arg))

\* The put event of a request handed to the client inbox directly.
Submitted ==
    /\ NAt("box_put") /\ Ev.arg = "none"
    /\ NCommit(BoxTriggerGet(Pop(NCur), "client"))

(***************************************************************************)
(* ClientRuntime._forwarder                                                *)
(***************************************************************************)
ClientStart ==
    /\ NAt("start") /\ Ev.arg = "client"
    /\ NCommit(BoxGet(Pop(NCur), "client"))

\* The test looks at the client hop itself instead of the hop before it.
IsReturn_LastHop(history) == history[Len(history)].type # "generator"

\* state.history[-2].component_type != SystemNodes.GENERATOR
IsReturn(history) == history[Len(history) - 1].type # "generator"

\* One turn of the loop, up to the next yield.
ClientForward ==
    /\ NAt("box_get") /\ Ev.arg = "client"
    /\ LET r == Ev.proc
           w == record_hop(Pop(NCur), r, "client", "client-1")
       IN IF IsReturn(w.rqs[r].history)
          THEN NCommit([w EXCEPT
                  !.rqs[r].finish_time = <<w.now>>,
                  !.completed_box = Append(@, r),
                  !.queue = Schedule(@, Event(w.now, FALSE, r,
                                              "completed_put", "client"))])
          ELSE NCommit(BoxGet(EdgeTransport(w, OutEdge("client"), r), "client"))

\* The put on the completed store is done: back to client_box.get().
ClientCompleted ==
    /\ NAt("completed_put")
    /\ NCommit(BoxGet(Pop(NCur), "client"))

(***************************************************************************)
(* LoadBalancerRuntime._forwarder                                          *)
(***************************************************************************)
\* lb_algorithms.round_robin: the edge at the cursor and the next cursor
round_robin(edges, idx) ==
    [edge |-> edges[(idx % Len(edges)) + 1], index |-> idx + 1]

\* lb_algorithms.least_connections: the first edge, in mapping order, whose
\* connection counter is minimal
least_connections(edges, load) ==
    LET Least(i) == \A j \in 1..Len(edges) : load[edges[i].id] <= load[edges[j].id]
        k == CHOOSE i \in 1..Len(edges) :
                /\ Least(i)
                /\ \A j \in 1..Len(edges) : Least(j) => i <= j
    IN edges[k]

\* Selection with the cursor returned by round_robin thrown away.
SelectEdge_KeepsIndex(w) ==
    IF net_config.algorithms = "round_robin"
    THEN [edge |-> round_robin(w.outer_edges, w.round_robin_index).edge,
          index |-> w.round_robin_index]
    ELSE [edge |-> least_connections(w.outer_edges, w.concurrent_connections),
          index |-> w.round_robin_index]

\* Selection that takes the round-robin branch whatever the algorithm.
SelectEdge_AlwaysRoundRobin(w) ==
    round_robin(w.outer_edges, w.round_robin_index)

\* Selection over the edges the load balancer was built with.
SelectEdge_FromBuiltEdges(w) ==
    IF net_config.algorithms = "round_robin"
    THEN round_robin(LbOutEdges, w.round_robin_index)
    ELSE [edge |-> least_connections(LbOutEdges, w.concurrent_connections),
          index |-> w.round_robin_index]

\* The choice of the out-edge and the cursor kept for the next turn.
SelectEdge(w) ==
    IF net_config.algorithms = "round_robin"
    THEN round_robin(w.outer_edges, w.round_robin_index)
    ELSE [edge |-> least_connections(w.outer_edges, w.concurrent_connections),
          index |-> w.round_robin_index]

LbStart ==
    /\ NAt("start") /\ Ev.arg = "lb"
    /\ NCommit(BoxGet(Pop(NCur), "lb"))

\* One turn of the loop. With no edge to choose from the selection raises
\* and the exception ends the run, the request already taken from lb_box.
LbForward ==
    /\ NAt("box_get") /\ Ev.arg = "lb"
    /\ LET r == Ev.proc
           w == record_hop(Pop(NCur), r, "load_balancer", "lb-1")
       IN IF w.outer_edges = <<>>
          THEN NCommit([w EXCEPT !.crashed = TRUE])
          ELSE LET sel == SelectEdge(w)
                   w1 == [w EXCEPT
                            !.round_robin_index = sel.index,
                            !.routed = Append(@,
                               [rq |-> r, edge |-> sel.edge.id,
                                rt |-> sel.edge.rt, t |-> w.now,
                                mapping |-> w.outer_edges,
                                load |-> w.concurrent_connections,
                                index |-> w.round_robin_index])]
               IN NCommit(BoxGet(EdgeTransport(w1, sel.edge.id, r), "lb"))

(***************************************************************************)
(* The servers behind the load balancer, with the endpoint SrvEndpoint     *)
(***************************************************************************)
SrvStart ==
    /\ NAt("start") /\ Ev.arg \in Servers
    /\ NCommit(BoxGet(Pop(NCur), Ev.arg))

\* _dispatcher: a handler process for the request, then the next get
SrvDispatch ==
    /\ NAt("box_get") /\ Ev.arg \in Servers
    /\ LET w == Pop(NCur)
       IN NCommit(BoxGet([w EXCEPT
                     !.queue = Schedule(@, Event(w.now, TRUE, Ev.proc,
                                                 "h_start", Ev.arg))],
                  Ev.arg))

\* _handle_request up to its first yield: the server hop, no RAM to get,
\* the timeout of the I/O step
SrvHandlerStart ==
    /\ NAt("h_start")
    /\ LET w == record_hop(Pop(NCur), Ev.proc, "server", Ev.arg)
       IN NCommit([w EXCEPT
                     !.queue = Schedule(@, Event(w.now + SrvEndpoint[1].val,
                                                 FALSE, Ev.proc, "h_io",
                                                 Ev.arg))])

\* After the I/O step: no RAM to put back, out_edge.transport(state)
SrvHandlerDone ==
    /\ NAt("h_io")
    /\ NCommit(EdgeTransport(Pop(NCur), OutEdge(Ev.arg), Ev.proc))

(***************************************************************************)
(* EventInjectionRuntime: server outages                                   *)
(***************************************************************************)
\* The entries of a mapping whose edge targets server s, in mapping order
RECURSIVE EntriesTo(_, _)
EntriesTo(edges, s) ==
    IF edges = <<>> THEN <<>>
    ELSE (IF Target(Head(edges).id) = s THEN <<Head(edges)>> ELSE <<>>)
         \o EntriesTo(Tail(edges), s)

RECURSIVE EntriesNotTo(_, _)
EntriesNotTo(edges, s) ==
    IF edges = <<>> THEN <<>>
    ELSE (IF Target(Head(edges).id) # s THEN <<Head(edges)>> ELSE <<>>)
         \o EntriesNotTo(Tail(edges), s)

\* SERVER_DOWN that takes the first entry of the mapping, whatever server
\* its edge leads to.
ServerDown_TakesFirst(w, s) ==
    IF w.outer_edges = <<>> THEN w
    ELSE [w EXCEPT !.removed = Append(@, Head(w.outer_edges)),
                   !.outer_edges = Tail(@)]

\* SERVER_DOWN: the entries towards s leave the mapping and are kept aside.
ServerDown(w, s) ==
    [w EXCEPT !.removed = @ \o EntriesTo(w.outer_edges, s),
              !.outer_edges = EntriesNotTo(@, s)]

\* SERVER_UP with the entries put back in front of the mapping.
ServerUp_AtHead(w, s) ==
    [w EXCEPT !.outer_edges = EntriesTo(w.removed, s) \o @,
              !.removed = EntriesNotTo(@, s)]

\* SERVER_UP: the entries kept aside go to the tail of the mapping.
ServerUp(w, s) ==
    [w EXCEPT !.outer_edges = @ \o EntriesTo(w.removed, s),
              !.removed = EntriesNotTo(@, s)]

\* timeout(t - now) up to the next marker
ScheduleMarker(w) ==
    IF w.timeline = <<>> THEN w
    ELSE [w EXCEPT !.queue = Schedule(@, Event(Head(w.timeline).t, FALSE, 0,
                                               "marker", "none"))]

InjectionStart ==
    /\ NAt("inj_start")
    /\ NCommit(ScheduleMarker(Pop(NCur)))

ApplyMarker ==
    /\ NAt("marker")
    /\ LET m == Head(timeline)
           w == [Pop(NCur) EXCEPT !.timeline = Tail(@)]
       IN NCommit(ScheduleMarker(IF m.kind = "SERVER_DOWN"
                                 THEN ServerDown(w, m.target_id)
                                 ELSE ServerUp(w, m.target_id)))

(***************************************************************************)
(* EventInjectionRuntime: edge spikes                                      *)
(***************************************************************************)
\* NETWORK_SPIKE_START: the delta is added to the live spike of the edge.
SpikeStart(w, m) == [w EXCEPT !.edges_spike[m.target_id] = @ + m.delta]

\* NETWORK_SPIKE_END that clears the live spike of the edge.
SpikeEnd_Clears(w, m) == [w EXCEPT !.edges_spike[m.target_id] = 0]

\* NETWORK_SPIKE_END: the delta of the ended event is taken off again.
SpikeEnd(w, m) == [w EXCEPT !.edges_spike[m.target_id] = @ - m.delta]

\* timeout(t - now) up to the next edge marker
ScheduleEdgeMarker(w) ==
    IF w.edges_timeline = <<>> THEN w
    ELSE [w EXCEPT !.queue = Schedule(@, Event(Head(w.edges_timeline).t, FALSE,
                                               0, "edge_marker", "none"))]

EdgesInjectionStart ==
    /\ NAt("edge_inj_start")
    /\ NCommit(ScheduleEdgeMarker(Pop(NCur)))

ApplyEdgeMarker ==
    /\ NAt("edge_marker")
    /\ LET m == Head(edges_timeline)
           w == [Pop(NCur) EXCEPT !.edges_timeline = Tail(@)]
       IN NCommit(ScheduleEdgeMarker(IF m.kind = "NETWORK_SPIKE_START"
                                     THEN SpikeStart(w, m)
                                     ELSE SpikeEnd(w, m)))

\* A request as the generator hands it over: its generator hop at t = 0.
NewRequest == [history |-> <<Hop("generator", "gen-1", 0)>>, finish_time |-> <<>>]

\* The network at rest, for the runs of the server alone.
NetIdle ==
    /\ rqs = [r \in Requests |-> NewRequest]
    /\ boxes = [n \in Nodes |-> <<>>]
    /\ getting = {}
    /\ completed_box = <<>>
    /\ outer_edges = LbOutEdges
    /\ round_robin_index = 0
    /\ concurrent_connections = [e \in Edges |-> 0]
    /\ removed = <<>>
    /\ timeline = <<>>
    /\ routed = <<>>
    /\ crashed = FALSE
    /\ edges_spike = [e \in Edges |-> 0]
    /\ edges_timeline = <<>>
    /\ sent = <<>>
    /\ net_config = [algorithms |-> "round_robin", lossy |-> {}, events |-> <<>>]

(***************************************************************************)
(* The arrival side: the gap sampler, the generator's arrival loop and     *)
(* run_simulation, under env.run(until = total_simulation_time). Time is   *)
(* in ticks.                                                               *)
(***************************************************************************)
\* total_simulation_time
SimulationTime == 6

\* sampling_window_s, the length of a user-sampling window
SamplingWindow == 4

\* mean_req_per_sec_per_user, requests per tick and user
ReqPerUser == 1

\* The values poisson_variable_generator can return
UserDraws == {0, 1, 2}

\* The values delta_t can take under a positive rate
GapDraws == {1, 2, 3, 5}

\* Gap lists a test scripts in place of the sampler: none, all arrivals
\* ahead of the horizon, one at the horizon, the last one at it, one
\* beyond it.
ScriptedGaps == { <<>>, <<1, 2, 2>>, <<SimulationTime>>, <<1, 2, 3>>, <<4, 5>> }

\* The arrival loops of the repository and the gap sources they run on
GenConfigs ==
    [runner : {"event_arrival", "arrival_process"},
     source : {"poisson_poisson"}, script : {<<>>}]
    \cup [runner : {"event_arrival", "arrival_process"},
          source : {"scripted"}, script : ScriptedGaps]

\* The gap iterator before its first next(): now, window_end and Lambda
\* of poisson_poisson_sampling, the windows it has opened with the users
\* drawn for each, the gaps it has yielded with its clock at each, the
\* values it has drawn from rng in the order of the draws, and the gaps a
\* scripted iterator still holds.
NewSampler(script) ==
    [now |-> 0, window_end |-> 0, Lambda |-> 0, windows |-> <<>>,
     yields |-> <<>>, draws |-> <<>>, rest |-> script, done |-> FALSE]

\* The iterator is exhausted.
Exhausted(s) == [s |-> [s EXCEPT !.done = TRUE], gap |-> <<>>]

\* The rate of a window computed for one user at least.
Resample_OneUserAtLeast(s, users) ==
    [s EXCEPT !.window_end = s.now + SamplingWindow,
              !.Lambda = (IF users = 0 THEN 1 ELSE users) * ReqPerUser,
              !.windows = Append(@, [start |-> s.now, users |-> users]),
              !.draws = Append(@, [of |-> "poisson", value |-> users])]

\* (Re)sample U at the start of a window
Resample(s, users) ==
    [s EXCEPT !.window_end = s.now + SamplingWindow,
              !.Lambda = users * ReqPerUser,
              !.windows = Append(@, [start |-> s.now, users |-> users]),
              !.draws = Append(@, [of |-> "poisson", value |-> users])]

\* poisson_poisson_sampling from one yield to the next: the outcomes of
\* next() on the iterator in state s, over the draws it can make. Each is
\* the state it is left in and the gap yielded, none when the loop ends.
RECURSIVE poisson_poisson_sampling(_)
poisson_poisson_sampling(s) ==
    IF ~(s.now < SimulationTime) THEN {Exhausted(s)}
    ELSE UNION {
           LET s1 == IF s.now >= s.window_end THEN Resample(s, users) ELSE s
           IN IF s1.Lambda <= 0
              THEN poisson_poisson_sampling([s1 EXCEPT !.now = s1.window_end])
              ELSE UNION {
                     LET s2 == [s1 EXCEPT !.draws =
                                   Append(@, [of |-> "uniform",
                                              value |-> delta_t])]
                     IN IF s2.now + delta_t > SimulationTime THEN {Exhausted(s2)}
                        ELSE IF s2.now + delta_t >= s2.window_end
                        THEN poisson_poisson_sampling(
                                 [s2 EXCEPT !.now = s2.window_end])
                        ELSE {[s |-> [s2 EXCEPT
                                       !.now = @ + delta_t,
                                       !.yields = Append(@,
                                          [at |-> s2.now + delta_t,
                                           window |-> Len(s2.windows)])],
                               gap |-> <<delta_t>>]}
                     : delta_t \in GapDraws }
           : users \in IF s.now >= s.window_end THEN UserDraws ELSE {0} }

\* next() on the gap iterator of the run
NextGaps(s) ==
    IF gen_config.source = "poisson_poisson" THEN poisson_poisson_sampling(s)
    ELSE IF s.rest = <<>> THEN {Exhausted(s)}
    ELSE {[s |-> [s EXCEPT !.rest = Tail(@)], gap |-> <<Head(s.rest)>>]}

\* The state of the arrival side as one value.
GCur ==
    [now |-> now, queue |-> queue, sampler |-> sampler,
     total_requests |-> total_requests, elapsed |-> elapsed,
     received |-> received]

GCommit(w) ==
    /\ now' = w.now
    /\ queue' = w.queue
    /\ sampler' = w.sampler
    /\ total_requests' = w.total_requests
    /\ elapsed' = w.elapsed
    /\ received' = w.received
    /\ UNCHANGED <<gen_config, srvvars, netvars, colvars, valvars, resvars, detvars>>

\* for gap in gaps: yield env.timeout(gap), or the end of the loop
WaitGap(w, out) ==
    IF out.gap = <<>> THEN [w EXCEPT !.sampler = out.s]
    ELSE [w EXCEPT !.sampler = out.s,
                   !.queue = Schedule(@, Event(w.now + out.gap[1], FALSE, 0,
                                               "gap", gen_config.runner))]

\* The arrival loop is entered: the first gap is asked for.
ArrivalStart ==
    /\ At("arrival_start")
    /\ \E out \in NextGaps(sampler) : GCommit(WaitGap(Pop(GCur), out))

\* RqsGeneratorRuntime._event_arrival after a gap: the loop body is the
\* timeout alone, so the next gap is asked for.
EventArrival ==
    /\ At("gap") /\ Ev.arg = "event_arrival"
    /\ LET w == Pop(GCur)
           w1 == [w EXCEPT !.elapsed = Append(@, w.now)]
       IN \E out \in NextGaps(sampler) : GCommit(WaitGap(w1, out))

\* total_request_per_time_period["total_requests"] += 1
Counted(w) == [w EXCEPT !.total_requests = @ + 1]

\* arrival_process of run_simulation after a gap: the arrival is counted,
\* then the next gap is asked for.
ArrivalProcess ==
    /\ At("gap") /\ Ev.arg = "arrival_process"
    /\ LET w == Pop(GCur)
           w1 == Counted([w EXCEPT !.elapsed = Append(@, w.now)])
       IN \E out \in NextGaps(sampler) : GCommit(WaitGap(w1, out))

\* env.run(until = T): the stop event, scheduled URGENT for T, is reached.
\* The clock is at T and the run returns; the events left are not
\* processed any more, which the marker at their head stands for.
Until ==
    /\ At("until")
    /\ now' = Ev.t
    /\ queue' = <<Event(Ev.t, TRUE, 0, "stopped", "none")>> \o Tail(queue)
    /\ UNCHANGED <<srvvars, netvars, genvars, colvars, valvars, resvars, detvars>>

\* The arrival side at rest, for the runs of the server and of the network.
GenIdle ==
    /\ gen_config = [runner |-> "event_arrival", source |-> "scripted",
                     script |-> <<>>]
    /\ sampler = NewSampler(<<>>)
    /\ total_requests = 0
    /\ elapsed = <<>>
    /\ received = <<>>

(***************************************************************************)
(* Two runs of one payload, each on the generator it was handed: the       *)
(* stream of a numpy Generator is a function of its seed.                  *)
(***************************************************************************)
\* The seeds of np.random.default_rng(seed)
Seeds == 0..3

\* The number of values of a stream a run can consume
StreamLen == 12

\* The raw values of the stream of a seed
Stream(seed) == [i \in 1..StreamLen |-> ((seed + 1) * i * i + seed) % 4]

\* rng.poisson(mean) and the gap computed from rng.random(), on a raw value
PoissonOf(r) == r % 3

GapOf(r) == CASE r = 0 -> 1 [] r = 1 -> 2 [] r = 2 -> 3 [] r = 3 -> 5

\* The draws are the values of the stream of the seed, taken in order.
FromStream(seed, draws) ==
    \A i \in DOMAIN draws :
        /\ i <= StreamLen
        /\ draws[i].value = IF draws[i].of = "poisson"
                            THEN PoissonOf(Stream(seed)[i])
                            ELSE GapOf(Stream(seed)[i])

\* next() on a gap iterator that was handed no generator: rng or
\* np.random.default_rng() makes a fresh one, seeded by the system.
SeededGaps_FreshRng(seed, s) == NextGaps(s)

\* next() on the gap iterator of a run, self.rng handed down to the
\* sampler and to its two helpers
SeededGaps(seed, s) ==
    {out \in NextGaps(s) : FromStream(seed, out.s.draws)}

\* One step of the environment of a run: the worlds it can lead to
RunStep(seed, w) ==
    LET e == Head(w.queue)
        p == Pop(w)
        arrived == [p EXCEPT !.elapsed = Append(@, p.now)]
        w1 == CASE e.kind = "arrival_start" -> p
                [] e.arg = "event_arrival" -> arrived
                [] OTHER -> Counted(arrived)
    IN  IF e.kind = "until"
        THEN {[w EXCEPT !.now = e.t,
                        !.queue = <<Event(e.t, TRUE, 0, "stopped", "none")>>
                                      \o Tail(w.queue)]}
        ELSE {WaitGap(w1, out) : out \in SeededGaps(seed, w1.sampler)}

\* Run i makes a step.
StepRun(i) ==
    /\ runs[i].queue # <<>>
    /\ Head(runs[i].queue).kind # "stopped"
    /\ \E w \in RunStep(seeds[i], runs[i]) : runs' = [runs EXCEPT ![i] = w]
    /\ UNCHANGED <<now, queue, srvvars, netvars, genvars, colvars, valvars,
                   resvars, seeds>>

FirstRun == StepRun(1)

SecondRun == StepRun(2)

\* No pair of runs, for the other specifications.
DetIdle ==
    /\ seeds = <<0, 0>>
    /\ runs = <<>>

(***************************************************************************)
(* SampledMetricCollector and the analyzer's time base. The collector      *)
(* reads the gauges of the server and of the edges of the run.             *)
(***************************************************************************)
\* sample_period_s of the runs (ms)
SamplePeriods == {3, 8}

\* total_simulation_time of the runs with a collector (ms)
RunHorizon == 16

\* The id of the server of the run
ServerId == "srv-1"

\* The mandatory sampled metrics of an edge and of a server
EdgeMetrics == {"edge_concurrent_connection"}

ServerMetrics == {"ram_in_use", "event_loop_io_sleep", "ready_queue_len"}

\* The series every runtime starts with: an empty list per metric it has
\* enabled.
NewMetrics(enabled) ==
    [x \in Edges \cup {ServerId} |->
        [m \in (IF ~enabled THEN {}
                ELSE IF x \in Edges THEN EdgeMetrics ELSE ServerMetrics)
           |-> <<>>]]

\* server.ram_in_use, server.io_queue_len, server.ready_queue_len and
\* edge.concurrent_connections as they stand
Gauge(x, m) ==
    CASE m = "edge_concurrent_connection" -> concurrent_connections[x]
      [] m = "ram_in_use" -> server_config.ram_mb - res.RAM.level
      [] m = "event_loop_io_sleep" -> io_q
      [] m = "ready_queue_len" -> ready_q

\* One tick with the series of every runtime appended to twice.
Sample_Twice(series, x) ==
    [m \in DOMAIN series |-> series[m] \o <<Gauge(x, m), Gauge(x, m)>>]

\* The appends of one tick on the series of runtime x: the edge's counter
\* when its key is there, the server's three gauges when all three keys
\* are there.
Sample(series, x) ==
    IF x \in Edges
    THEN [m \in DOMAIN series |->
             IF m = "edge_concurrent_connection"
             THEN Append(series[m], Gauge(x, m)) ELSE series[m]]
    ELSE IF ServerMetrics \subseteq DOMAIN series
    THEN [m \in DOMAIN series |->
             IF m \in ServerMetrics
             THEN Append(series[m], Gauge(x, m)) ELSE series[m]]
    ELSE series

\* The collector process starts: up to its first timeout.
CollectorStart ==
    /\ At("collector_start")
    /\ now' = Ev.t
    /\ queue' = Schedule(Tail(queue),
                         Event(Ev.t + sim_settings.sample_period_s, FALSE, 0,
                               "tick", "none"))
    /\ UNCHANGED <<srvvars, netvars, genvars, colvars, valvars, resvars, detvars>>

\* _build_time_series after a timeout: one round of appends, then the
\* next timeout.
CollectorTick ==
    /\ At("tick")
    /\ now' = Ev.t
    /\ enabled_metrics' =
          [x \in DOMAIN enabled_metrics |-> Sample(enabled_metrics[x], x)]
    /\ sampled_at' = Append(sampled_at, Ev.t)
    /\ queue' = Schedule(Tail(queue),
                         Event(Ev.t + sim_settings.sample_period_s, FALSE, 0,
                               "tick", "none"))
    /\ UNCHANGED <<srvvars, netvars, genvars, sim_settings, valvars, resvars, detvars>>

\* np.arange(samples) * sample_period_s: the time the analyzer gives the
\* k-th of the values of a series
TimeBase(samples) ==
    [k \in 1..samples |-> (k - 1) * sim_settings.sample_period_s]

\* No collector, for the runs without one.
CollectorIdle ==
    /\ sim_settings = [sample_period_s |-> 1,
                       total_simulation_time |-> RunHorizon,
                       enabled |-> FALSE]
    /\ enabled_metrics = NewMetrics(FALSE)
    /\ sampled_at = <<>>

(***************************************************************************)
(* Validation of the input: TopologyNodes, TopologyGraph and               *)
(* SimulationPayload, each with its validators in the order of the class.  *)
(***************************************************************************)
\* The last instant of the outage windows of the payloads
MaxT == 3

\* load_balancer: None
NoLb == [id |-> "", server_covered |-> {}]

Lb(id, covered) == [id |-> id, server_covered |-> covered]

EdgeOf(id, source, target) == [id |-> id, source |-> source, target |-> target]

\* The edge lists of the topologies
EdgeLists ==
    { <<>>,
      <<EdgeOf("e1", "client-1", "srv-1"), EdgeOf("e2", "srv-1", "client-1")>>,
      <<EdgeOf("e1", "client-1", "srv-1"), EdgeOf("e1", "srv-1", "client-1")>>,
      <<EdgeOf("e0", "rqs-1", "client-1"), EdgeOf("e1", "client-1", "lb-1"),
        EdgeOf("e2", "lb-1", "srv-1"), EdgeOf("e3", "srv-1", "client-1")>>,
      <<EdgeOf("e1", "client-1", "lb-1"), EdgeOf("e2", "lb-1", "srv-1"),
        EdgeOf("e2", "lb-1", "srv-2")>> }

\* The topologies handed to the schemas
Topologies ==
    [servers : {<<"srv-1">>, <<"srv-1", "srv-2">>, <<"srv-1", "srv-1">>,
                <<"client-1">>},
     client : {"client-1", "srv-1"},
     load_balancer : {NoLb} \cup
         {Lb(i, c) : i \in {"lb-1", "srv-1", "client-1"},
                     c \in {{}, {"srv-1"}}},
     edges : EdgeLists]

\* An event window on a server: SERVER_DOWN at t_start, SERVER_UP at t_end
Window(target, a, b) == [target_id |-> target, t_start |-> a, t_end |-> b]

\* Event.ensure_start_end_compatibility: t_start < t_end
ServerWindows(ids) ==
    {w \in [target_id : ids, t_start : 0..MaxT, t_end : 1..MaxT] :
        w.t_start < w.t_end}

\* The lists of at most two windows on the servers ids
WindowLists(ids) ==
    {<<>>} \cup {<<w>> : w \in ServerWindows(ids)}
           \cup {<<v, w>> : v \in ServerWindows(ids), w \in ServerWindows(ids)}

\* The two topologies that pass every validator of the graph
OneServer ==
    [servers |-> <<"srv-1">>, client |-> "client-1", load_balancer |-> NoLb,
     edges |-> <<EdgeOf("e1", "client-1", "srv-1"),
                 EdgeOf("e2", "srv-1", "client-1")>>]

TwoServers ==
    [servers |-> <<"srv-1", "srv-2">>, client |-> "client-1",
     load_balancer |-> Lb("lb-1", {"srv-1"}),
     edges |-> <<EdgeOf("e0", "rqs-1", "client-1"),
                 EdgeOf("e1", "client-1", "lb-1"),
                 EdgeOf("e2", "lb-1", "srv-1"),
                 EdgeOf("e3", "srv-1", "client-1")>>]

Range(seq) == {seq[i] : i \in DOMAIN seq}

\* Counter(ids): the ids that occur more than once
Duplicate(ids) ==
    {x \in Range(ids) : Cardinality({i \in DOMAIN ids : ids[i] = x}) > 1}

\* TopologyNodes.unique_ids: TRUE when it raises
TopologyNodes_unique_ids(nodes) ==
    Duplicate(nodes.servers \o <<nodes.client>>) # {}

\* TopologyGraph.unique_ids: TRUE when it raises
TopologyGraph_unique_ids(g) ==
    Duplicate([i \in DOMAIN g.edges |-> g.edges[i].id]) # {}

\* The declared node ids: servers, client, optional load balancer
NodeIds(g) ==
    Range(g.servers) \cup {g.client} \cup
    (IF g.load_balancer = NoLb THEN {} ELSE {g.load_balancer.id})

\* TopologyGraph.edge_refs_valid: TRUE when it raises
edge_refs_valid(g) ==
    LET targets == {g.edges[i].target : i \in DOMAIN g.edges}
        external_sources ==
            {g.edges[i].source : i \in DOMAIN g.edges} \ NodeIds(g)
    IN  \/ targets \ NodeIds(g) # {}
        \/ external_sources \cap targets # {}

\* TopologyGraph.valid_load_balancer: TRUE when it raises
valid_load_balancer(g) ==
    LET lb == g.load_balancer
        targets_from_lb ==
            {g.edges[i].target :
                i \in {j \in DOMAIN g.edges : g.edges[j].source = lb.id}}
    IN  /\ lb # NoLb
        /\ \/ lb.server_covered \ Range(g.servers) # {}
           \/ lb.server_covered \ targets_from_lb # {}

RECURSIVE Markers(_), SortInsert(_, _), Sorted(_), Scan(_, _, _)

\* The two markers of every window, in the order of the list
Markers(events) ==
    IF events = <<>> THEN <<>>
    ELSE <<[time |-> Head(events).t_start, kind |-> "start",
            server_id |-> Head(events).target_id],
           [time |-> Head(events).t_end, kind |-> "end",
            server_id |-> Head(events).target_id]>> \o Markers(Tail(events))

\* key=lambda x: (x[0], x[1] == START): a sorts before b
KeyLess(a, b) ==
    \/ a.time < b.time
    \/ a.time = b.time /\ a.kind = "end" /\ b.kind = "start"

\* list.sort, which is stable: x goes behind every marker whose key is
\* not above its own
SortInsert(tl, x) ==
    IF tl = <<>> THEN <<x>>
    ELSE IF KeyLess(x, Head(tl)) THEN <<x>> \o tl
    ELSE <<Head(tl)>> \o SortInsert(Tail(tl), x)

Sorted(ms) ==
    IF ms = <<>> THEN <<>>
    ELSE SortInsert(Sorted(SubSeq(ms, 1, Len(ms) - 1)), ms[Len(ms)])

\* The scan of the timeline: a start marker discards its server, any other
\* marker adds it and compares the size of the set with the number of
\* servers. TRUE when it raises.
Scan(tl, server_down, n) ==
    IF tl = <<>> THEN FALSE
    ELSE IF Head(tl).kind = "start"
    THEN Scan(Tail(tl), server_down \ {Head(tl).server_id}, n)
    ELSE \/ Cardinality(server_down \cup {Head(tl).server_id}) = n
         \/ Scan(Tail(tl), server_down \cup {Head(tl).server_id}, n)

\* SimulationPayload.ensure_not_all_servers_are_down_simultaneously: TRUE
\* when it raises
ensure_not_all_servers_are_down_simultaneously(p) ==
    LET servers_ids == Range(p.servers)
        server_events ==
            SelectSeq(p.events, LAMBDA e : e.target_id \in servers_ids)
    IN  Scan(Sorted(Markers(server_events)), {}, Cardinality(servers_ids))

Answer(raises) == IF raises THEN "rejected" ELSE "accepted"

\* TopologyNodes(...): the validator of the nodes
ValidateNodes ==
    /\ verdict.nodes = "pending"
    /\ verdict' = [verdict EXCEPT
                     !.nodes = Answer(TopologyNodes_unique_ids(payload))]
    /\ UNCHANGED <<now, queue, srvvars, netvars, genvars, colvars, resvars, detvars,
                   payload>>

\* TopologyGraph(...): its validators in the order of the class, the
\* first to raise ends it
ValidateGraph ==
    /\ verdict.nodes = "accepted"
    /\ verdict.graph = "pending"
    /\ verdict' = [verdict EXCEPT
                     !.graph = Answer(\/ TopologyGraph_unique_ids(payload)
                                      \/ edge_refs_valid(payload)
                                      \/ valid_load_balancer(payload))]
    /\ UNCHANGED <<now, queue, srvvars, netvars, genvars, colvars, resvars, detvars,
                   payload>>

\* SimulationPayload(...): the validator of the outages
ValidatePayload ==
    /\ verdict.graph = "accepted"
    /\ verdict.payload = "pending"
    /\ verdict' = [verdict EXCEPT
          !.payload =
              Answer(ensure_not_all_servers_are_down_simultaneously(payload))]
    /\ UNCHANGED <<now, queue, srvvars, netvars, genvars, colvars, resvars, detvars,
                   payload>>

\* No input under validation, for the runs.
ValidationIdle ==
    /\ payload = [OneServer EXCEPT !.edges = <<>>] @@ [events |-> <<>>]
    /\ verdict = [nodes |-> "accepted", graph |-> "accepted",
                  payload |-> "accepted"]

(***************************************************************************)
(* ResultsAnalyzer: the getters and the caches they fill. None is the      *)
(* empty sequence and a value v that is set is <<v>>; a dict is the set of *)
(* its items.                                                              *)
(***************************************************************************)
\* ResultsAnalyzer._WINDOW_SIZE_S
WindowSize == 1

\* The largest finish time of the clocks handed to the analyzer
MaxFinish == 3

\* The (start, finish) pairs of the completed requests
Clocks == {c \in [start : 0..1, finish : 1..MaxFinish] : c.start <= c.finish}

RqsClocks ==
    {<<>>} \cup {<<c>> : c \in Clocks} \cup {<<c, d>> : c \in Clocks, d \in Clocks}

\* ResultsAnalyzer.__init__: nothing computed yet
NewAnalyzer ==
    [latencies |-> <<>>, latency_stats |-> <<>>, throughput_series |-> <<>>,
     sampled_metrics |-> <<>>]

Latencies(clock) == [i \in DOMAIN clock |-> clock[i].finish - clock[i].start]

\* The summary of the latencies: the count and the two extremes of it
LatencyStats(lat) ==
    IF lat = <<>> THEN {}
    ELSE {<<"total_requests", Len(lat)>>,
          <<"min", CHOOSE x \in Range(lat) : \A y \in Range(lat) : x <= y>>,
          <<"max", CHOOSE x \in Range(lat) : \A y \in Range(lat) : y <= x>>}

\* The throughput per window: the completions not counted yet that finish
\* by the end of the window, for every window that ends within the run
Throughput(clock, end_time) ==
    LET windows == end_time \div WindowSize
        Count(k) ==
            Cardinality({i \in DOMAIN clock :
                /\ clock[i].finish <= k * WindowSize
                /\ k > 1 => clock[i].finish > (k - 1) * WindowSize})
    IN  [timestamps |-> [k \in 1..windows |-> k * WindowSize],
         rps |-> [k \in 1..windows |-> Count(k) \div WindowSize]]

\* _process_event_metrics
ProcessEventMetrics(a) ==
    [a EXCEPT
        !.latencies = <<Latencies(rqs_clock)>>,
        !.latency_stats = <<LatencyStats(Latencies(rqs_clock))>>,
        !.throughput_series =
            <<Throughput(rqs_clock, sim_settings.total_simulation_time)>>]

\* _extract_sampled_metrics: metrics[name][id] = values
ExtractSampledMetrics(a) ==
    [a EXCEPT !.sampled_metrics =
        <<UNION {{[name |-> m, id |-> x, values |-> enabled_metrics[x][m]] :
                     m \in DOMAIN enabled_metrics[x]} : x \in entities}>>]

\* process_all_metrics
process_all_metrics(a) ==
    LET b == IF a.latency_stats = <<>> /\ rqs_clock # <<>>
             THEN ProcessEventMetrics(a) ELSE a
    IN  IF b.sampled_metrics = <<>> THEN ExtractSampledMetrics(b) ELSE b

\* get_latency_stats: latency_stats or {}
get_latency_stats ==
    /\ raised = "none"
    /\ returned.latency_stats = <<>>
    /\ analyzer' = process_all_metrics(analyzer)
    /\ returned' = [returned EXCEPT !.latency_stats =
                       IF analyzer'.latency_stats = <<>> THEN <<{}>>
                       ELSE analyzer'.latency_stats]
    /\ UNCHANGED <<now, queue, srvvars, netvars, genvars, colvars, valvars,
                   detvars, rqs_clock, entities, raised>>

\* get_throughput_series: assert self.throughput_series is not None
get_throughput_series ==
    /\ raised = "none"
    /\ returned.throughput_series = <<>>
    /\ analyzer' = process_all_metrics(analyzer)
    /\ IF analyzer'.throughput_series = <<>>
       THEN raised' = "AssertionError" /\ UNCHANGED returned
       ELSE /\ returned' = [returned EXCEPT !.throughput_series =
                                analyzer'.throughput_series]
            /\ UNCHANGED raised
    /\ UNCHANGED <<now, queue, srvvars, netvars, genvars, colvars, valvars,
                   detvars, rqs_clock, entities>>

\* get_sampled_metrics
get_sampled_metrics ==
    /\ raised = "none"
    /\ returned.sampled_metrics = <<>>
    /\ analyzer' = process_all_metrics(analyzer)
    /\ returned' = [returned EXCEPT !.sampled_metrics =
                       analyzer'.sampled_metrics]
    /\ UNCHANGED <<now, queue, srvvars, netvars, genvars, colvars, valvars,
                   detvars, rqs_clock, entities, raised>>

\* No results read yet, for the runs.
ResultsIdle ==
    /\ rqs_clock = <<>>
    /\ entities = {}
    /\ analyzer = NewAnalyzer
    /\ returned = [latency_stats |-> <<>>, throughput_series |-> <<>>,
                   sampled_metrics |-> <<>>]
    /\ raised = "none"

(***************************************************************************)
(* The run                                                                 *)
(***************************************************************************)
NewHandler ==
    [pc |-> "new", ep |-> 0, step |-> 0, total_ram |-> 0, hop |-> -1,
     held |-> [CPU |-> 0, RAM |-> 0],
     gets |-> [CPU |-> 0, RAM |-> 0],
     puts |-> [CPU |-> 0, RAM |-> 0],
     waited |-> FALSE, core_locked |-> FALSE, in_ready |-> FALSE,
     in_io |-> FALSE]

Zero == [CPU |-> 0, RAM |-> 0]

\* The events present before env.run(): the dispatcher's start and the
\* deliveries of the upstream edge, in request order.
InitialQueue(arr) ==
    ScheduleAll(<<Event(0, TRUE, Dispatcher, "init", "none")>>,
                [r \in Requests |-> Event(arr[r], FALSE, r, "arrive", "none")])

Init ==
    /\ now = 0
    /\ server_config \in [cpu_cores : {1, 2}, ram_mb : {256, 1024},
                          endpoints : EndpointLists]
    /\ builder \in Builders
    /\ arrival \in {a \in [Requests -> ArrivalTimes] :
                       \A r \in Requests : r > 1 => a[r - 1] <= a[r]}
    /\ res = BuildWith(builder, server_config)
    /\ queue = InitialQueue(arrival)
    /\ server_box = <<>>
    /\ disp_wait = FALSE
    /\ handlers = [h \in Requests |-> NewHandler]
    /\ started = <<>>
    /\ sink = <<>>
    /\ meter = [got |-> Zero, put |-> Zero, get_calls |-> Zero, put_calls |-> Zero]
    /\ ready_q = 0
    /\ io_q = 0
    /\ NetIdle
    /\ GenIdle
    /\ CollectorIdle
    /\ ValidationIdle
    /\ ResultsIdle
    /\ DetIdle

Next ==
    \/ Arrive
    \/ Delivered
    \/ DispatcherStart
    \/ Dispatch
    \/ HandlerStart
    \/ RamGranted
    \/ CpuGranted
    \/ CpuStepDone
    \/ CpuReleased
    \/ IoStepDone
    \/ RamReleased

Spec == Init /\ [][Next]_vars

\* The runtime with the queue gauges, on containers that start full.
InitAF == Init /\ builder = "server_containers"

NextAF ==
    \/ Arrive
    \/ Delivered
    \/ DispatcherStart
    \/ Dispatch
    \/ AF_HandlerStart
    \/ AF_RamGranted
    \/ AF_CpuGranted
    \/ AF_CpuStepDone
    \/ AF_CpuReleased
    \/ AF_IoStepDone
    \/ RamReleased

SpecAF == InitAF /\ [][NextAF]_vars

(***************************************************************************)
(* The run of the network: every request is in the client inbox, with its  *)
(* generator hop, before env.run().                                        *)
(***************************************************************************)
NetInitialQueue ==
    ScheduleAll(<<>>,
                <<Event(0, TRUE, 0, "start", "client"),
                  Event(0, TRUE, 0, "start", "lb"),
                  Event(0, TRUE, 0, "start", "srv-1"),
                  Event(0, TRUE, 0, "start", "srv-2"),
                  Event(0, TRUE, 0, "inj_start", "none"),
                  Event(0, TRUE, 0, "edge_inj_start", "none")>>
                \o [r \in Requests |-> Event(0, FALSE, r, "box_put", "none")])

\* The server model at rest, for the runs of the network.
ServerIdle ==
    /\ server_config = [cpu_cores |-> 1, ram_mb |-> 256, endpoints |-> <<EpDefault>>]
    /\ builder = "server_containers"
    /\ arrival = [r \in Requests |-> 0]
    /\ res = BuildWith(builder, server_config)
    /\ server_box = <<>>
    /\ disp_wait = FALSE
    /\ handlers = [h \in Requests |-> NewHandler]
    /\ started = <<>>
    /\ sink = <<>>
    /\ meter = [got |-> Zero, put |-> Zero, get_calls |-> Zero, put_calls |-> Zero]
    /\ ready_q = 0
    /\ io_q = 0

InitNet ==
    /\ ServerIdle
    /\ GenIdle
    /\ CollectorIdle
    /\ ValidationIdle
    /\ ResultsIdle
    /\ DetIdle
    /\ now = 0
    /\ net_config \in NetConfigs
    /\ queue = NetInitialQueue
    /\ rqs = [r \in Requests |-> NewRequest]
    /\ boxes = [n \in Nodes |-> IF n = "client" THEN [r \in Requests |-> r]
                                                ELSE <<>>]
    /\ getting = {}
    /\ completed_box = <<>>
    /\ outer_edges = LbOutEdges
    /\ round_robin_index = 0
    /\ concurrent_connections = [e \in Edges |-> 0]
    /\ removed = <<>>
    /\ timeline = BuildTimeline(ServerEvents(net_config.events))
    /\ routed = <<>>
    /\ crashed = FALSE
    /\ edges_spike = [e \in Edges |-> 0]
    /\ edges_timeline = BuildEdgesTimeline(SpikeEvents(net_config.events))
    /\ sent = <<>>

NextNet ==
    \/ ClientStart
    \/ LbStart
    \/ SrvStart
    \/ InjectionStart
    \/ Submitted
    \/ ClientForward
    \/ ClientCompleted
    \/ LbForward
    \/ DeliverStart
    \/ DeliverArrive
    \/ DeliverDone
    \/ SrvDispatch
    \/ SrvHandlerStart
    \/ SrvHandlerDone
    \/ ApplyMarker
    \/ EdgesInjectionStart
    \/ ApplyEdgeMarker

SpecNet == InitNet /\ [][NextNet]_vars

(***************************************************************************)
(* The run of the arrival side alone: env.process(<the arrival loop>),     *)
(* then env.run(until = SimulationTime)                                    *)
(***************************************************************************)
\* The stop event placed one tick after the horizon.
GenInitialQueue_StopsLate ==
    ScheduleAll(<<>>,
                <<Event(0, TRUE, 0, "arrival_start", "none"),
                  Event(SimulationTime + 1, TRUE, 0, "until", "none")>>)

GenInitialQueue ==
    ScheduleAll(<<>>,
                <<Event(0, TRUE, 0, "arrival_start", "none"),
                  Event(SimulationTime, TRUE, 0, "until", "none")>>)

InitGen ==
    /\ ServerIdle
    /\ NetIdle
    /\ CollectorIdle
    /\ ValidationIdle
    /\ ResultsIdle
    /\ DetIdle
    /\ now = 0
    /\ queue = GenInitialQueue
    /\ gen_config \in GenConfigs
    /\ sampler = NewSampler(gen_config.script)
    /\ total_requests = 0
    /\ elapsed = <<>>
    /\ received = <<>>

NextGen ==
    \/ ArrivalStart
    \/ EventArrival
    \/ ArrivalProcess
    \/ Until

SpecGen == InitGen /\ [][NextGen]_vars

\* env.run() keeps stepping while an event is scheduled.
\* The processes of a run with a collector, in the order they are created,
\* and the stop event of env.run(until=...).
RunInitialQueue(arr, settings) ==
    ScheduleAll(InitialQueue(arr),
                <<Event(0, TRUE, 0, "collector_start", "none"),
                  Event(settings.total_simulation_time, TRUE, 0, "until",
                        "none")>>)

\* A run of the server with the gauges, the collector and a horizon.
InitRun ==
    /\ now = 0
    /\ server_config \in [cpu_cores : {1, 2}, ram_mb : {256, 1024},
                          endpoints : EndpointLists]
    /\ builder = "server_containers"
    /\ arrival \in {a \in [Requests -> ArrivalTimes] :
                       \A r \in Requests : r > 1 => a[r - 1] <= a[r]}
    /\ res = BuildWith(builder, server_config)
    /\ sim_settings \in [sample_period_s : SamplePeriods,
                         total_simulation_time : {RunHorizon},
                         enabled : BOOLEAN]
    /\ queue = RunInitialQueue(arrival, sim_settings)
    /\ server_box = <<>>
    /\ disp_wait = FALSE
    /\ handlers = [h \in Requests |-> NewHandler]
    /\ started = <<>>
    /\ sink = <<>>
    /\ meter = [got |-> Zero, put |-> Zero, get_calls |-> Zero, put_calls |-> Zero]
    /\ ready_q = 0
    /\ io_q = 0
    /\ NetIdle
    /\ GenIdle
    /\ enabled_metrics = NewMetrics(sim_settings.enabled)
    /\ sampled_at = <<>>
    /\ ValidationIdle
    /\ ResultsIdle
    /\ DetIdle

NextRun ==
    \/ NextAF
    \/ CollectorStart
    \/ CollectorTick
    \/ Until

SpecRun == InitRun /\ [][NextRun]_vars

\* The inputs: every topology without events, and the two sound
\* topologies with every list of outage windows.
InitVal ==
    /\ ServerIdle
    /\ NetIdle
    /\ GenIdle
    /\ CollectorIdle
    /\ ResultsIdle
    /\ DetIdle
    /\ now = 0
    /\ queue = <<>>
    /\ payload \in {t @@ [events |-> <<>>] : t \in Topologies} \cup
                   {OneServer @@ [events |-> ws] :
                        ws \in WindowLists({"srv-1"})} \cup
                   {TwoServers @@ [events |-> ws] :
                        ws \in WindowLists({"srv-1", "srv-2"})}
    /\ verdict = [nodes |-> "pending", graph |-> "pending",
                  payload |-> "pending"]

NextVal ==
    \/ ValidateNodes
    \/ ValidateGraph
    \/ ValidatePayload

SpecVal == InitVal /\ [][NextVal]_vars

\* The results of a run that is over: the clocks of the client, the
\* entities that were built and the series they hold.
InitRes ==
    /\ ServerIdle
    /\ NetIdle
    /\ GenIdle
    /\ ValidationIdle
    /\ DetIdle
    /\ now = 0
    /\ queue = <<>>
    /\ sim_settings \in [sample_period_s : {1},
                         total_simulation_time : {2, MaxFinish},
                         enabled : BOOLEAN]
    /\ enabled_metrics \in
          {NewMetrics(sim_settings.enabled),
           [x \in DOMAIN NewMetrics(sim_settings.enabled) |->
               [m \in DOMAIN NewMetrics(sim_settings.enabled)[x] |-> <<0, 0>>]]}
    /\ sampled_at = <<>>
    /\ rqs_clock \in RqsClocks
    /\ entities \in {{}, {ServerId}, {ServerId, "lb-e1"}}
    /\ analyzer = NewAnalyzer
    /\ returned = [latency_stats |-> <<>>, throughput_series |-> <<>>,
                   sampled_metrics |-> <<>>]
    /\ raised = "none"

NextRes ==
    \/ get_latency_stats
    \/ get_throughput_series
    \/ get_sampled_metrics

SpecRes == InitRes /\ [][NextRes]_vars

\* The arrival side of a run before env.run
NewRun ==
    [now |-> 0, queue |-> GenInitialQueue, sampler |-> NewSampler(<<>>),
     total_requests |-> 0, elapsed |-> <<>>, received |-> <<>>]

\* The same payload run twice, each run on a generator of its own seed.
InitDet ==
    /\ ServerIdle
    /\ NetIdle
    /\ CollectorIdle
    /\ ValidationIdle
    /\ ResultsIdle
    /\ now = 0
    /\ queue = <<>>
    /\ gen_config \in [runner : {"event_arrival", "arrival_process"},
                       source : {"poisson_poisson"}, script : {<<>>}]
    /\ sampler = NewSampler(<<>>)
    /\ total_requests = 0
    /\ elapsed = <<>>
    /\ received = <<>>
    /\ seeds \in Seeds \X Seeds
    /\ runs = <<NewRun, NewRun>>

NextDet ==
    \/ FirstRun
    \/ SecondRun

SpecDet == InitDet /\ [][NextDet]_vars

\* The full pipeline: the generator hands every request to its out-edge,
\* the edge from the generator to the client.
PipeInitialQueue ==
    ScheduleAll(<<>>,
                <<Event(0, TRUE, 0, "start", "client"),
                  Event(0, TRUE, 0, "start", "lb"),
                  Event(0, TRUE, 0, "start", "srv-1"),
                  Event(0, TRUE, 0, "start", "srv-2"),
                  Event(0, TRUE, 0, "inj_start", "none"),
                  Event(0, TRUE, 0, "edge_inj_start", "none")>>
                \o [r \in Requests |-> Event(0, TRUE, r, "deliver", "g-c")])

\* The runs of the network with the requests put into the client inbox, as
\* the tests of the client do, or sent over the edge from the generator.
InitPipe ==
    /\ ServerIdle
    /\ GenIdle
    /\ CollectorIdle
    /\ ValidationIdle
    /\ ResultsIdle
    /\ DetIdle
    /\ now = 0
    /\ net_config = [algorithms |-> "round_robin", lossy |-> {},
                     events |-> <<Outage("srv-1", 1, 3), Spike("s2-c", 4, 6, 3)>>]
    /\ \/ /\ queue = NetInitialQueue
          /\ boxes = [n \in Nodes |-> IF n = "client" THEN [r \in Requests |-> r]
                                                      ELSE <<>>]
       \/ /\ queue = PipeInitialQueue
          /\ boxes = [n \in Nodes |-> <<>>]
    /\ rqs = [r \in Requests |-> NewRequest]
    /\ getting = {}
    /\ completed_box = <<>>
    /\ outer_edges = LbOutEdges
    /\ round_robin_index = 0
    /\ concurrent_connections = [e \in Edges |-> 0]
    /\ removed = <<>>
    /\ timeline = BuildTimeline(ServerEvents(net_config.events))
    /\ routed = <<>>
    /\ crashed = FALSE
    /\ edges_spike = [e \in Edges |-> 0]
    /\ edges_timeline = BuildEdgesTimeline(SpikeEvents(net_config.events))
    /\ sent = <<>>

SpecPipe == InitPipe /\ [][NextNet]_vars

SpecGenFair == SpecGen /\ WF_vars(NextGen)

\* The server under contention: one core, 256 MB, the first request at
\* t = 0.
InitBusy ==
    /\ Init
    /\ server_config.cpu_cores = 1
    /\ server_config.ram_mb = 256
    /\ arrival[1] = 0

SpecBusy == InitBusy /\ [][Next]_vars

\* RAM(512) -> CPU(5 ms)
EpRam512 == <<RamStep(512), CpuStep(5)>>

\* ServerResources: cpu_cores >= MINIMUM_CPU_CORES, ram_mb >= MINIMUM_RAM_MB
ServerResources_valid(r) == r.cpu_cores >= 1 /\ r.ram_mb >= 256

\* Step.ensure_coherence_kind_metrics: one metric, the one of the kind; the
\* metric is a positive number.
Step_valid(step) == step.kind \in {"CPU", "RAM", "IO"} /\ step.val > 0

\* Server: the resources and every step of every endpoint pass their own
\* validators; no validator sees an endpoint and the resources together.
Server_valid(server) ==
    /\ ServerResources_valid(server)
    /\ \A i \in 1..Len(server.endpoints) :
          \A j \in 1..Len(server.endpoints[i]) :
              Step_valid(server.endpoints[i][j])

\* A server, on containers that start full, one of whose endpoints asks for
\* more RAM than the server has.
InitOver ==
    /\ now = 0
    /\ server_config \in [cpu_cores : {1, 2}, ram_mb : {256},
                          endpoints : { <<EpDefault, EpRam512>>,
                                        <<EpRam512, EpCpuIo>>,
                                        <<EpIoIo, EpRam512>> }]
    /\ Server_valid(server_config)
    /\ builder = "server_containers"
    /\ arrival \in {a \in [Requests -> ArrivalTimes] :
                       \A r \in Requests : r > 1 => a[r - 1] <= a[r]}
    /\ res = BuildWith(builder, server_config)
    /\ queue = InitialQueue(arrival)
    /\ server_box = <<>>
    /\ disp_wait = FALSE
    /\ handlers = [h \in Requests |-> NewHandler]
    /\ started = <<>>
    /\ sink = <<>>
    /\ meter = [got |-> Zero, put |-> Zero, get_calls |-> Zero, put_calls |-> Zero]
    /\ ready_q = 0
    /\ io_q = 0
    /\ NetIdle
    /\ GenIdle
    /\ CollectorIdle
    /\ ValidationIdle
    /\ ResultsIdle
    /\ DetIdle

SpecOver == InitOver /\ [][Next]_vars

(***************************************************************************)
(* Observations on a state                                                 *)
(***************************************************************************)
Done(h) == handlers[h].pc = "done"

AllDone == \A h \in Requests : Done(h)

RECURSIVE SumHeld(_, _)
SumHeld(name, n) ==
    IF n = 0 THEN 0 ELSE handlers[n].held[name] + SumHeld(name, n - 1)

\* The level the container had when it was built.
BuiltLevel(name) == BuildWith(builder, server_config)[name].level

Waiting(name) == {res[name].get_queue[i].proc : i \in 1..Len(res[name].get_queue)}

StepsOf(h) == server_config.endpoints[handlers[h].ep]

\* Step j of the endpoint continues a CPU burst: the previous yielding step
\* is a CPU step too.
RECURSIVE ContinuesBurst(_, _)
ContinuesBurst(steps, j) ==
    IF j <= 1 THEN FALSE
    ELSE IF steps[j - 1].kind = "RAM" THEN ContinuesBurst(steps, j - 1)
    ELSE steps[j - 1].kind = "CPU"

\* Number of CPU bursts that begin at or before step i.
RECURSIVE Bursts(_, _)
Bursts(steps, i) ==
    IF i = 0 THEN 0
    ELSE Bursts(steps, i - 1)
         + (IF steps[i].kind = "CPU" /\ ~ContinuesBurst(steps, i) THEN 1 ELSE 0)

(***************************************************************************)
(* RAM accounting                                                          *)
(***************************************************************************)
\* C1: for each server the RAM taken from the container equals the RAM put
\* back: a handler holds either nothing or exactly its endpoint's total, the
\* RAM in use is the sum of what the handlers hold, a finished handler holds
\* nothing, and once every handler has finished the totals got and put agree
\* and the level is back where it was built.
C1_RamConservation ==
    /\ \A h \in Requests :
          /\ handlers[h].held.RAM \in {0, handlers[h].total_ram}
          /\ Done(h) => /\ handlers[h].held.RAM = 0
                        /\ handlers[h].gets.RAM = handlers[h].puts.RAM
    /\ meter.got.RAM - meter.put.RAM = SumHeld("RAM", NumRequests)
    /\ BuiltLevel("RAM") - res.RAM.level = SumHeld("RAM", NumRequests)
    /\ AllDone => /\ meter.got.RAM = meter.put.RAM
                  /\ res.RAM.level = BuiltLevel("RAM")

\* Every handler has finished and each of them had taken RAM.
C1_Witness ==
    /\ AllDone
    /\ \A h \in Requests : handlers[h].total_ram > 0 /\ handlers[h].puts.RAM = 1
    /\ meter.got.RAM >= NumRequests * 64

(***************************************************************************)
(* CPU tokens                                                              *)
(***************************************************************************)
\* C2: within one handler consecutive CPU steps run under a single token:
\* the handler issues one CPU get per burst, and between two consecutive CPU
\* steps it still holds the token, so no waiting handler can take the core.
C2_SingleTokenPerBurst ==
    \A h \in Requests :
       handlers[h].ep # 0 =>
          /\ handlers[h].gets.CPU <= Bursts(StepsOf(h), handlers[h].step)
          /\ ( /\ handlers[h].step > 0
               /\ ContinuesBurst(StepsOf(h), handlers[h].step)
               /\ handlers[h].pc \in {"cpu_get", "cpu_run"} )
             => \A g \in Requests \ {h} : handlers[g].held.CPU = 0
                                          \/ server_config.cpu_cores > 1

\* C3: a handler holds a CPU token only while it executes a CPU step: it
\* holds exactly one during the step, none during an I/O wait and none at
\* the end; during a handler's I/O wait after its CPU step a one-core
\* server has its core back (level 1) unless another handler has taken it,
\* and during the CPU step the level of a one-core server is 0.
C3_TokenOnlyDuringCpuStep ==
    \A h \in Requests :
       /\ handlers[h].held.CPU \in {0, 1}
       /\ handlers[h].pc = "cpu_run" => handlers[h].held.CPU = 1
       /\ handlers[h].held.CPU = 1 => handlers[h].pc \in {"cpu_get", "cpu_run"}
       /\ handlers[h].pc \in {"io_wait", "ram_put", "done"} => handlers[h].held.CPU = 0
       /\ server_config.cpu_cores = 1 =>
             /\ handlers[h].pc = "cpu_run" => res.CPU.level = 0
             /\ ( /\ handlers[h].pc = "io_wait"
                  /\ handlers[h].puts.CPU > 0
                  /\ \A g \in Requests : handlers[g].held.CPU = 0 )
                => res.CPU.level = 1

\* On a one-core server a handler is in its I/O wait after its CPU step
\* while another handler executes its CPU step on the same core.
C3_Witness ==
    /\ server_config.cpu_cores = 1
    /\ \E h, g \in Requests :
          /\ handlers[h].pc = "io_wait" /\ handlers[h].puts.CPU = 1
          /\ handlers[g].pc = "cpu_run" /\ res.CPU.level = 0

\* C9: CPU gets and puts balance: a handler's put calls never exceed its get
\* calls and trail them by at most one, it never holds more than one token
\* nor a negative number, a finished handler holds none and has made as many
\* puts as gets, and once every handler has finished the server's totals of
\* get(1) and put(1) calls are equal.
C9_CpuConservation ==
    /\ \A h \in Requests :
          /\ handlers[h].puts.CPU <= handlers[h].gets.CPU
          /\ handlers[h].gets.CPU <= handlers[h].puts.CPU + 1
          /\ handlers[h].held.CPU >= 0
          /\ handlers[h].held.CPU <= handlers[h].gets.CPU - handlers[h].puts.CPU
          /\ Done(h) => handlers[h].gets.CPU = handlers[h].puts.CPU
    /\ meter.got.CPU - meter.put.CPU = SumHeld("CPU", NumRequests)
    /\ AllDone => /\ meter.get_calls.CPU = meter.put_calls.CPU
                  /\ meter.got.CPU = meter.put.CPU

\* Every handler has finished after using the CPU, one of them twice.
C9_Witness ==
    /\ AllDone
    /\ \A h \in Requests : handlers[h].gets.CPU >= 1
    /\ meter.put_calls.CPU > NumRequests

\* C10: RAM comes first: a handler blocked on its RAM get holds no CPU token,
\* has not asked for one and is in no I/O wait, and a handler that has asked
\* for the CPU, or is in an I/O wait, holds its whole RAM requirement.
C10_RamBeforeCpu ==
    \A h \in Requests :
       /\ handlers[h].pc = "ram_get" =>
             /\ handlers[h].held.CPU = 0
             /\ handlers[h].gets.CPU = 0
             /\ h \notin Waiting("CPU")
       /\ h \in Waiting("RAM") => handlers[h].pc = "ram_get"
       /\ handlers[h].pc \in {"cpu_get", "cpu_run", "cpu_put", "io_wait"} =>
             handlers[h].held.RAM = handlers[h].total_ram

\* A handler is blocked in the RAM queue while another one, holding the
\* RAM, executes its CPU step.
C10_Witness ==
    \E h, g \in Requests :
       /\ h \in Waiting("RAM")
       /\ handlers[g].pc = "cpu_run"
       /\ handlers[g].held.RAM = 256

(***************************************************************************)
(* Dispatching                                                             *)
(***************************************************************************)
\* C6: the dispatcher starts one handler per inbox message and does not wait
\* for earlier handlers: handlers start in the order the requests reached
\* the inbox, each at the very instant its request arrived, whatever the
\* handlers before it are doing.
C6_HandlersStartInArrivalOrder ==
    /\ started = [i \in 1..Len(started) |-> i]
    /\ \A h \in Requests :
          /\ handlers[h].hop >= 0 => handlers[h].hop = arrival[h]
          /\ arrival[h] < now => handlers[h].hop = arrival[h]

\* Two handlers ran at the same time and the one started later finished
\* first.
C6_Witness ==
    \E i, j \in 1..Len(sink) :
       /\ i < j /\ sink[i].id > sink[j].id
       /\ handlers[sink[i].id].hop < sink[j].t
       /\ handlers[sink[j].id].hop < handlers[sink[i].id].hop

(***************************************************************************)
(* Scenario S2                                                             *)
(***************************************************************************)
\* One core, endpoint [CPU 5 ms, IO 20 ms] (with or without its RAM step of
\* 128 MB), requests at t = 0 and t = 1 ms.
S2Scenario ==
    /\ server_config.cpu_cores = 1
    /\ server_config.endpoints \in {<<EpCpuIo>>, <<EpDefault>>}
    /\ arrival[1] = 0 /\ arrival[2] = 1

\* No event is left at the current instant.
Settled == queue = <<>> \/ Head(queue).t > now

S2Timings ==
    S2Scenario =>
       /\ handlers[1].pc = "cpu_run" => now < 5
       /\ (Settled /\ now < 5) => handlers[1].pc = "cpu_run"
       /\ (Settled /\ 1 <= now /\ now < 5) => 2 \in Waiting("CPU")
       /\ (Settled /\ 2 \in Waiting("CPU")) => (1 <= now /\ now < 5)
       /\ handlers[2].pc = "cpu_run" => (5 <= now /\ now < 10)
       /\ (Settled /\ 5 <= now /\ now < 10) => handlers[2].pc = "cpu_run"
       /\ queue = <<>> => /\ Len(sink) >= 2
                          /\ sink[1] = [id |-> 1, t |-> 25]
                          /\ sink[2] = [id |-> 2, t |-> 30]

\* C7: scenario S2: request 1 executes its CPU step over [0, 5], request 2
\* waits for the core over [1, 5) and executes its CPU step over [5, 10];
\* request 1 finishes at 25 and request 2 at 30 (ms).
C7_S2Timings == S2Timings

\* The timings of S2 on a server whose containers start full.
S2TimingsWhenFull == builder = "server_containers" => S2Timings

\* Scenario S2 has run to its end on full containers.
S2Reached ==
    S2Scenario /\ builder = "server_containers" /\ queue = <<>> /\ Len(sink) >= 2

(***************************************************************************)
(* Construction of the containers                                          *)
(***************************************************************************)
\* C8: the containers are built full: before any handler has run the CPU
\* level equals cpu_cores and the RAM level equals ram_mb, no handler on an
\* otherwise idle server waits for its first get, and the levels are back
\* at cpu_cores and ram_mb once the work has drained.
C8_ContainersStartFull ==
    /\ started = <<>> => /\ res.CPU.level = server_config.cpu_cores
                         /\ res.RAM.level = server_config.ram_mb
    /\ (Len(started) = 1 /\ Settled) => Waiting("CPU") \cup Waiting("RAM") = {}
    /\ queue = <<>> => /\ res.CPU.level = server_config.cpu_cores
                       /\ res.RAM.level = server_config.ram_mb

(***************************************************************************)
(* Queue gauges                                                            *)
(***************************************************************************)
\* The handlers whose CPU get had to wait and who have not resumed yet.
BlockedOnCpu ==
    {h \in Requests : handlers[h].pc = "cpu_get" /\ handlers[h].waited}

\* C4: ready_q is the number of handlers blocked waiting for a CPU token: it
\* counts exactly the handlers whose CPU get had to wait and who have not
\* yet resumed with the token, a handler whose get found a free core is
\* never counted, and whenever the current instant is settled ready_q is the
\* length of the CPU container's get queue.
C4_ReadyQueueCountsWaiters ==
    /\ ready_q = Cardinality(BlockedOnCpu)
    /\ Waiting("CPU") \subseteq BlockedOnCpu
    /\ Settled => ready_q = Len(res.CPU.get_queue)

\* One handler is counted in ready_q, waiting behind a handler that found
\* the core free and was not counted.
C4_Witness ==
    /\ ready_q = 1
    /\ Settled
    /\ \E h, g \in Requests :
          /\ h \in Waiting("CPU")
          /\ handlers[g].pc = "cpu_run" /\ ~handlers[g].waited

\* With the gauges: a handler blocked on its RAM get is counted in neither
\* ready_q nor io_q.
RamGateKeepsGauges ==
    \A h \in Requests :
       handlers[h].pc = "ram_get" =>
          /\ ~handlers[h].in_ready /\ ~handlers[h].in_io
          /\ (\A g \in Requests \ {h} : handlers[g].pc \in {"new", "ram_get", "done"})
                => (ready_q = 0 /\ io_q = 0)

\* C5: io_q is the number of handlers inside an I/O segment: it equals the
\* number of handlers in an I/O timeout at every state, also while a handler
\* is in the second of two consecutive I/O steps, and it is 0 once the run
\* has drained.
C5_IoQueueCountsSegments ==
    /\ io_q = Cardinality({h \in Requests : handlers[h].pc = "io_wait"})
    /\ \A h \in Requests : handlers[h].in_io <=> handlers[h].pc = "io_wait"
    /\ queue = <<>> => io_q = 0

\* A handler is in the second of two consecutive I/O steps and io_q is 1.
C5_Witness ==
    /\ io_q = 1
    /\ \E h \in Requests :
          /\ handlers[h].pc = "io_wait"
          /\ handlers[h].step > 1
          /\ StepsOf(h)[handlers[h].step - 1].kind = "IO"

(***************************************************************************)
(* Order of the container waiters                                          *)
(***************************************************************************)
\* The processes whose get on container name was requested before that of
\* h and is still waiting: those ahead of h in the queue, or the whole
\* queue when h is not in it.
Ahead(name, h) ==
    LET q == res[name].get_queue
        at == {i \in 1..Len(q) : q[i].proc = h}
    IN {q[i].proc : i \in {k \in 1..Len(q) : \A a \in at : k < a}}

\* Handler h is given units of container name by the step.
GrantedNow(name, h) == handlers'[h].held[name] > handlers[h].held[name]

FifoStep(name) ==
    \A h \in Requests :
       GrantedNow(name, h) => \A p \in Ahead(name, h) : GrantedNow(name, p)

\* C11: CPU and RAM waiters are served in strict FIFO order of their get
\* requests: a step that grants a handler its units also grants every
\* handler that asked before it and was still waiting, so a large RAM get at
\* the head of the queue holds back the smaller gets behind it, whatever
\* the level.
C11_WaitersServedFifo == [][FifoStep("CPU") /\ FifoStep("RAM")]_vars

\* A RAM get waits at the head of the queue for more than the level, and
\* behind it waits a get the level could satisfy.
C11_Witness ==
    LET q == res.RAM.get_queue
    IN /\ Len(q) >= 2
       /\ q[1].amount > res.RAM.level
       /\ q[2].amount <= res.RAM.level
       /\ handlers[q[2].proc].held.RAM = 0

(***************************************************************************)
(* Observations on the network                                             *)
(***************************************************************************)
History(r) == rqs[r].history

InSeq(x, seq) == \E i \in 1..Len(seq) : seq[i] = x

\* The request has an event of the given kind scheduled on edge e.
OnEdge(r, kind, e) ==
    \E i \in 1..Len(queue) :
       queue[i].proc = r /\ queue[i].kind = kind /\ queue[i].arg = e

\* Positions of the client hops of r, of its dropped hops
ClientHops(r) == {k \in 1..Len(History(r)) : History(r)[k].type = "client"}

DroppedHops(r) == {k \in 1..Len(History(r)) : History(r)[k].dropped}

Dropped(r) == DroppedHops(r) # {}

\* The request is in no inbox and no event is scheduled for it.
Discarded(r) ==
    /\ \A n \in Nodes : ~InSeq(r, boxes[n])
    /\ \A i \in 1..Len(queue) : queue[i].proc # r

\* Every process has run to the end or blocks on its inbox.
NetDrained == queue = <<>> /\ ~crashed

\* Transports in progress on edge e: started and not dropped, their
\* _deliver process not yet ended.
InProgress(e) ==
    Cardinality({i \in 1..Len(queue) :
                    queue[i].kind \in {"transit", "box_put"} /\ queue[i].arg = e})

(***************************************************************************)
(* Client                                                                  *)
(***************************************************************************)
\* C12: on each message the client records a client hop and decides from
\* the history alone. When the hop before the client hop is the generator's
\* the request is in transport on the out-edge with finish_time unset; otherwise
\* finish_time is the time of the client hop, the request is in the
\* completed store and goes no further. Nothing else reaches the completed
\* store.
C12_ClientDecidesFromHistory ==
    \A r \in Requests :
       LET h == History(r) IN
       /\ \A k \in ClientHops(r) :
             /\ k >= 2
             /\ IF h[k - 1].type = "generator"
                THEN /\ ~InSeq(r, completed_box) \/ k < Len(h)
                     /\ k = Len(h) =>
                           /\ rqs[r].finish_time = <<>>
                           /\ \/ OnEdge(r, "deliver", OutEdge("client"))
                              \/ OnEdge(r, "transit", OutEdge("client"))
                     /\ k < Len(h) =>
                           /\ h[k + 1].type = "network_connection"
                           /\ h[k + 1].id = OutEdge("client")
                ELSE /\ k = Len(h)
                     /\ rqs[r].finish_time = <<h[k].t>>
                     /\ InSeq(r, completed_box)
       /\ InSeq(r, completed_box) => h[Len(h)].type = "client"

\* A request was forwarded on its first visit, came back through a server
\* and was completed on its second visit.
C12_Witness ==
    \E r \in Requests :
       /\ InSeq(r, completed_box)
       /\ Cardinality(ClientHops(r)) = 2
       /\ History(r)[1].type = "generator" /\ History(r)[2].type = "client"
       /\ \E k \in 1..Len(History(r)) : History(r)[k].type = "server"

(***************************************************************************)
(* Edges                                                                   *)
(***************************************************************************)
\* The step records a dropped hop for request r.
DroppedNow(r) == ~Dropped(r) /\ rqs'[r].history # rqs[r].history
                 /\ rqs'[r].history[Len(rqs'[r].history)].dropped

\* C13: when the drop draw of an edge falls below dropout_rate the request
\* is discarded: the step records the dropped hop and nothing else, the
\* connection counters stay as they are, no transit time is scheduled, the
\* clock does not move, the hop carries the time of the hop before it, and
\* from then on the request is in no inbox, has no event scheduled and its
\* history does not grow.
C13_DroppedIsDiscarded ==
    [][\A r \in Requests :
         /\ DroppedNow(r) =>
               /\ concurrent_connections' = concurrent_connections
               /\ queue' = Tail(queue)
               /\ boxes' = boxes
               /\ now' = now
               /\ LET h == rqs'[r].history
                  IN h[Len(h)].t = h[Len(h) - 1].t
               /\ \A n \in Nodes : ~InSeq(r, boxes'[n])
         /\ Dropped(r) =>
               /\ Discarded(r)
               /\ rqs'[r] = rqs[r]
               /\ \A n \in Nodes : ~InSeq(r, boxes'[n])]_vars

\* The run has drained with a request dropped on the way to a server, its
\* dropped hop being the last of its history.
C13_Witness ==
    /\ NetDrained
    /\ \E r \in Requests :
          /\ Dropped(r)
          /\ History(r)[Len(History(r))].id = "lb-e1"
          /\ ~InSeq(r, completed_box)

\* C14: the in-flight counter of every edge equals the number of transports
\* in progress on it (started, not dropped, their delivery not yet
\* concluded), and it is 0 on every edge once the run has drained.
C14_InFlightCountsTransports ==
    /\ \A e \in Edges : concurrent_connections[e] = InProgress(e)
    /\ queue = <<>> => \A e \in Edges : concurrent_connections[e] = 0

\* Two transports are in progress on the same load-balancer edge.
C14_Witness ==
    /\ concurrent_connections["lb-e1"] = 2
    /\ InProgress("lb-e1") = 2

(***************************************************************************)
(* Load balancer                                                           *)
(***************************************************************************)
Ids(edges) == [i \in 1..Len(edges) |-> edges[i].id]

\* C15: with round_robin the cursor starts at 0 and advances by one per
\* routed request, the k-th routed request (k = 0, 1, ...) goes to the edge
\* at position k mod N of the mapping, and over the unchanged mapping
\* [lb-e1 -> srv-1, lb-e2 -> srv-2] the requests go to srv-1, srv-2, srv-1.
C15_RoundRobinRotation ==
    net_config.algorithms = "round_robin" =>
       /\ round_robin_index = Len(routed)
       /\ \A k \in 1..Len(routed) :
             LET d == routed[k]
                 n == Len(d.mapping)
             IN /\ d.index = k - 1
                /\ d.edge = d.mapping[((k - 1) % n) + 1].id
                /\ net_config.events = <<>> =>
                      /\ d.mapping = LbOutEdges
                      /\ Target(d.edge) = (IF k % 2 = 1 THEN "srv-1" ELSE "srv-2")

\* Three requests were routed over the unchanged mapping: srv-1, srv-2, srv-1.
C15_Witness ==
    /\ net_config.algorithms = "round_robin"
    /\ net_config.events = <<>>
    /\ Len(routed) = 3
    /\ [k \in 1..3 |-> Target(routed[k].edge)] = <<"srv-1", "srv-2", "srv-1">>

\* C16: with least_connections every request goes to an edge of the mapping
\* as it is at the decision, whose in-flight counter is minimal among the
\* edges of that mapping; of the edges with that minimum it is the first in
\* mapping order.
C16_LeastConnectionsPicksLowest ==
    net_config.algorithms = "least_connections" =>
       \A k \in 1..Len(routed) :
          LET d == routed[k]
              m == d.mapping
          IN \E i \in 1..Len(m) :
                /\ m[i].id = d.edge
                /\ \A j \in 1..Len(m) : d.load[m[i].id] <= d.load[m[j].id]
                /\ \A j \in 1..(i - 1) : d.load[m[j].id] > d.load[m[i].id]

\* A decision passed over the busier first edge of the mapping, and another
\* decision broke a tie in favour of the first edge.
C16_Witness ==
    /\ net_config.algorithms = "least_connections"
    /\ \E k \in 1..Len(routed) :
          LET d == routed[k]
          IN /\ Len(d.mapping) = 2
             /\ d.edge = d.mapping[2].id
             /\ d.load[d.mapping[1].id] > d.load[d.mapping[2].id]
    /\ \E k \in 1..Len(routed) :
          LET d == routed[k]
          IN /\ Len(d.mapping) = 2
             /\ d.edge = d.mapping[1].id
             /\ d.load[d.mapping[1].id] = d.load[d.mapping[2].id]

(***************************************************************************)
(* Server outages                                                          *)
(***************************************************************************)
\* The markers applied so far
Applied ==
    LET full == BuildTimeline(ServerEvents(net_config.events))
    IN SubSeq(full, 1, Len(full) - Len(timeline))

\* The servers that are down: a SERVER_DOWN applied, its SERVER_UP not yet
DownNow ==
    {s \in Servers :
        \E i \in 1..Len(Applied) :
           /\ Applied[i].kind = "SERVER_DOWN" /\ Applied[i].target_id = s
           /\ \A j \in (i + 1)..Len(Applied) : Applied[j].target_id # s}

\* The rank of the last restoration of edge id e, 0 when never restored
RestoredAt(e) ==
    LET ups == {i \in 1..Len(Applied) :
                   Applied[i].kind = "SERVER_UP" /\ Applied[i].target_id = Target(e)}
    IN IF ups = {} THEN 0 ELSE CHOOSE i \in ups : \A j \in ups : j <= i

BuiltAt(e) == CHOOSE i \in 1..Len(LbOutEdges) : LbOutEdges[i].id = e

\* Server s is inside an outage window at time t.
InOutage(s, t) ==
    \E i \in 1..Len(net_config.events) :
       LET ev == net_config.events[i]
       IN ev.target_id = s /\ ev.t_start <= t /\ t < ev.t_end

\* C17: a server's outage takes out of the mapping, at t_start, every entry
\* whose edge targets the server and puts them back at t_end, at the tail,
\* under their id and bound to the same edge runtime; the entries not
\* affected keep their relative order. At every state the mapping holds
\* exactly the entries of the servers that are up, each as it was built,
\* ordered by their last restoration and, among those never restored, as
\* built; the markers before now are applied and those after now are not.
C17_OutageRoundTrip ==
    /\ \A i \in 1..Len(Applied) : Applied[i].t <= now
    /\ \A i \in 1..Len(timeline) : timeline[i].t >= now
    /\ {outer_edges[i] : i \in 1..Len(outer_edges)}
          = {LbOutEdges[i] : i \in {j \in 1..Len(LbOutEdges) :
                                       Target(LbOutEdges[j].id) \notin DownNow}}
    /\ \A i, j \in 1..Len(outer_edges) :
          i < j =>
             LET a == outer_edges[i].id
                 b == outer_edges[j].id
             IN \/ RestoredAt(a) < RestoredAt(b)
                \/ RestoredAt(a) = RestoredAt(b) /\ BuiltAt(a) < BuiltAt(b)

\* After the outage of srv-1 the mapping [lb-e1, lb-e2] has become
\* [lb-e2, lb-e1], lb-e1 bound to the runtime it was built with.
C17_Witness ==
    /\ outer_edges = <<LbOutEdges[2], LbOutEdges[1]>>
    /\ \E i \in 1..Len(Applied) : Applied[i].kind = "SERVER_UP"

\* C18: no routing decision of the load balancer, under either policy,
\* selects an edge whose target is inside an outage window [t_start, t_end)
\* at the time of the decision.
C18_NoRoutingToDownServer ==
    \A k \in 1..Len(routed) : ~InOutage(Target(routed[k].edge), routed[k].t)

\* Two decisions were taken while srv-1 was down, and both went to srv-2.
C18_Witness ==
    /\ Cardinality({k \in 1..Len(routed) : InOutage("srv-1", routed[k].t)}) >= 2
    /\ \A k \in 1..Len(routed) :
          InOutage("srv-1", routed[k].t) => Target(routed[k].edge) = "srv-2"

\* C19: with an empty mapping the requests that reach the load balancer are
\* neither lost nor the cause of an error: they stay in the inbox until an
\* edge is restored. No exception ends the run, and a request the load
\* balancer has taken from its inbox is on its way over an out-edge.
C19_EmptyMappingKeepsRequests ==
    /\ ~crashed
    /\ \A r \in Requests :
          LET h == History(r)
          IN h[Len(h)].type = "load_balancer" =>
                \E e \in LbEdgeIds :
                   OnEdge(r, "deliver", e) \/ OnEdge(r, "transit", e)

\* With an empty mapping and no traffic the load balancer just waits.
LbIdleOnEmptyMapping ==
    (outer_edges = <<>> /\ boxes["lb"] = <<>> /\ "lb" \in getting
        /\ \A i \in 1..Len(queue) : queue[i].arg # "lb")
    => ~crashed

\* C20: a request in transit on a load-balancer edge when an outage removes
\* the edge is still delivered and handled: after its load-balancer hop a
\* request records the hop of the chosen edge (or its drop there), and once
\* the run has drained every routed request that was not dropped has the
\* hop of the chosen edge, the hop of the edge's server, and is completed.
C20_InTransitSurvivesRemoval ==
    \A k \in 1..Len(routed) :
       LET d == routed[k]
           h == History(d.rq)
       IN /\ \A i \in 1..(Len(h) - 1) :
                h[i].type = "load_balancer" =>
                   h[i + 1].type = "network_connection" /\ h[i + 1].id = d.edge
          /\ (NetDrained /\ ~Dropped(d.rq)) =>
                /\ \E i \in 1..(Len(h) - 1) :
                      /\ h[i].type = "network_connection" /\ h[i].id = d.edge
                      /\ h[i + 1].type = "server" /\ h[i + 1].id = Target(d.edge)
                      /\ h[i + 1].t = h[i].t
                /\ InSeq(d.rq, completed_box)

\* A request was routed to srv-1 before the outage, reached the server while
\* its edge was out of the mapping, and was completed.
C20_Witness ==
    \E k \in 1..Len(routed) :
       LET d == routed[k]
           h == History(d.rq)
       IN /\ Target(d.edge) = "srv-1"
          /\ ~InOutage("srv-1", d.t)
          /\ \E i \in 1..Len(h) :
                /\ h[i].type = "server" /\ h[i].id = "srv-1"
                /\ InOutage("srv-1", h[i].t)
          /\ InSeq(d.rq, completed_box)

(***************************************************************************)
(* Edge spikes and outages side by side                                    *)
(***************************************************************************)
\* The edge markers built from the payload, and those applied so far
EdgesBuilt == BuildEdgesTimeline(SpikeEvents(net_config.events))

EdgesApplied == SubSeq(EdgesBuilt, 1, Len(EdgesBuilt) - Len(edges_timeline))

\* A server marker, or an edge marker, is applied by the step.
ServerMarkerStep == timeline' # timeline

EdgeMarkerStep == edges_timeline' # edges_timeline

\* What neither family of markers touches
NetRest ==
    <<rqs, boxes, getting, completed_box, round_robin_index,
      concurrent_connections, routed, crashed, sent>>

\* C21: a server marker leaves every edge's spike, and all of the network
\* state but the mapping, as it was, and in the mapping it leaves the
\* entries towards the other servers as they were and in their order; for
\* a server no mapping edge leads to, the mapping is the same after DOWN
\* and after UP. An edge marker leaves the mapping, and the entries kept
\* aside, as they were.
C21_OutageAndSpikeFrames ==
    [][/\ ServerMarkerStep =>
           LET s == Head(timeline).target_id
           IN /\ UNCHANGED <<edges_spike, edges_timeline, NetRest>>
              /\ EntriesNotTo(outer_edges', s) = EntriesNotTo(outer_edges, s)
              /\ EntriesNotTo(removed', s) = EntriesNotTo(removed, s)
              /\ (\A i \in 1..Len(LbOutEdges) : Target(LbOutEdges[i].id) # s)
                    => UNCHANGED <<outer_edges, removed>>
       /\ EdgeMarkerStep =>
           LET e == Head(edges_timeline).target_id
           IN /\ UNCHANGED <<outer_edges, removed, timeline, NetRest>>
              /\ \A f \in Edges \ {e} : edges_spike'[f] = edges_spike[f]]_vars

\* Both markers of the outage of srv-3 are applied, and both markers of a
\* spike on the client's edge; the mapping is the one built and requests
\* have gone through it.
C21_Witness ==
    /\ \E i \in 1..Len(Applied) :
          Applied[i].kind = "SERVER_UP" /\ Applied[i].target_id = "srv-3"
    /\ \E i \in 1..Len(EdgesApplied) :
          EdgesApplied[i].kind = "NETWORK_SPIKE_END"
          /\ EdgesApplied[i].target_id = "c-lb"
    /\ outer_edges = LbOutEdges
    /\ Len(routed) > 0

\* No edge marker due by now is still to be applied.
EdgesSettled == edges_timeline = <<>> \/ Head(edges_timeline).t > now

\* The sum of the deltas of the spike events on edge e whose interval
\* [t_start, t_end) holds t
RECURSIVE SumActive(_, _, _)
SumActive(events, e, t) ==
    IF events = <<>> THEN 0
    ELSE LET ev == Head(events)
         IN (IF IsSpike(ev) /\ ev.target_id = e /\ ev.t_start <= t /\ t < ev.t_end
             THEN ev.spike_s ELSE 0)
            + SumActive(Tail(events), e, t)

\* C22: once the markers due are applied, the live spike of every edge is
\* the sum of the deltas of the spike events on it that have started and
\* not ended, 0 when there is none; with A = [1, 5): +3 and B = [2, 3): +2
\* on one edge it is 5 on [2, 3), 3 on [3, 5) and 0 from 5 on.
C22_SpikeIsSumOfActive ==
    EdgesSettled =>
       /\ \A e \in Edges : edges_spike[e] = SumActive(net_config.events, e, now)
       /\ net_config.events = <<SpikeA, SpikeB>> =>
             edges_spike["lb-e1"] = (CASE now < 1 -> 0
                                       [] now = 1 -> 3
                                       [] now = 2 -> 5
                                       [] now \in 3..4 -> 3
                                       [] OTHER -> 0)

\* Inside [2, 3) both spikes are on and a request is being handled.
C22_Witness ==
    /\ net_config.events = <<SpikeA, SpikeB>>
    /\ now = 2 /\ EdgesSettled
    /\ edges_spike["lb-e1"] = 5
    /\ \E k \in 1..Len(sent) : sent[k].edge = "lb-e1" /\ sent[k].spike = 3

\* In timeline tl no START stands ahead of an END of the same instant.
EndsFirst(tl) ==
    \A i, j \in 1..Len(tl) :
       (i < j /\ tl[i].t = tl[j].t) => ~(~IsEnd(tl[i].kind) /\ IsEnd(tl[j].kind))

\* No START of this instant is applied while an END of it is pending.
NoStartBeforeEnd(applied, pending) ==
    \A i \in 1..Len(applied), j \in 1..Len(pending) :
       applied[i].t = pending[j].t => ~(~IsEnd(applied[i].kind) /\ IsEnd(pending[j].kind))

\* The highest sum of overlapping spikes edge e has at any instant
PeakSpike(e) ==
    LET sums == {SumActive(net_config.events, e, t) : t \in 0..Horizon}
    IN CHOOSE m \in sums : \A n \in sums : n <= m

\* C23: in each family the markers of one instant are applied ENDs first
\* (spike END before spike START, SERVER_UP before SERVER_DOWN): the
\* timelines are built that way, no START is applied while an END of the
\* same instant is pending, and the live spike of an edge never holds an
\* ending spike together with one that starts at the same instant.
C23_EndBeforeStart ==
    /\ EndsFirst(EdgesBuilt)
    /\ EndsFirst(BuildTimeline(ServerEvents(net_config.events)))
    /\ NoStartBeforeEnd(EdgesApplied, edges_timeline)
    /\ NoStartBeforeEnd(Applied, timeline)
    /\ \A e \in Edges : edges_spike[e] <= PeakSpike(e)

\* At t = 3 one spike on lb-e1 has ended and two have started: the live
\* value is 2 + 1, the +4 of the ended one gone.
C23_Witness ==
    /\ now = 3
    /\ edges_spike["lb-e1"] = 3
    /\ \E i, j \in 1..Len(EdgesApplied) :
          /\ i < j
          /\ EdgesApplied[i].t = 3 /\ EdgesApplied[i].kind = "NETWORK_SPIKE_END"
          /\ EdgesApplied[j].t = 3 /\ EdgesApplied[j].kind = "NETWORK_SPIKE_START"

\* The network hops of request r on edge e that were not drops
ArrivalsOn(r, e) ==
    {i \in 1..Len(History(r)) :
        /\ History(r)[i].type = "network_connection"
        /\ History(r)[i].id = e /\ ~History(r)[i].dropped}

\* A marker of edge e between time a (included) and time b (excluded) that
\* is applied: the spike of e changed while a transport was under way.
ChangedBetween(e, a, b) ==
    \E i \in 1..Len(EdgesApplied) :
       /\ EdgesApplied[i].target_id = e
       /\ a <= EdgesApplied[i].t /\ EdgesApplied[i].t < b

Reorderings(events) ==
    LET n == Len(events)
        perms == {p \in [1..n -> 1..n] : \A i, j \in 1..n : p[i] = p[j] => i = j}
    IN {[i \in 1..n |-> events[p[i]]] : p \in perms}

\* The spike of edge e at time t when the markers of tl are applied one
\* after the other, each at its time: those up to the first one later
\* than t.
RECURSIVE SpikeAt(_, _, _)
SpikeAt(tl, e, t) ==
    IF tl = <<>> \/ Head(tl).t > t THEN 0
    ELSE (IF Head(tl).target_id # e THEN 0
          ELSE IF Head(tl).kind = "NETWORK_SPIKE_START" THEN Head(tl).delta
          ELSE 0 - Head(tl).delta)
         + SpikeAt(Tail(tl), e, t)

\* C25: the spike of every edge over time is the same for every order in
\* which the spike events are listed: the timeline of each reordering gives
\* at every instant the value the timeline of the payload gives, and it is
\* the value the run shows.
C25_ListingOrderIrrelevant ==
    \A other \in Reorderings(SpikeEvents(net_config.events)) :
       LET tl == BuildEdgesTimeline(other)
           built == EdgesBuilt
       IN \A e \in Edges :
             /\ \A t \in 0..Horizon : SpikeAt(tl, e, t) = SpikeAt(built, e, t)
             /\ EdgesSettled => edges_spike[e] = SpikeAt(tl, e, now)

\* The pair of S6 listed B first: both are on at t = 2, as when listed A
\* first, and the two listings are different lists.
C25_Witness ==
    /\ net_config.events = <<SpikeB, SpikeA>>
    /\ <<SpikeA, SpikeB>> \in Reorderings(net_config.events)
    /\ <<SpikeA, SpikeB>> # net_config.events
    /\ now = 2 /\ EdgesSettled
    /\ edges_spike["lb-e1"] = SpikeA.spike_s + SpikeB.spike_s

(***************************************************************************)
(* The arrival side                                                        *)
(***************************************************************************)
\* env.run(until) has returned.
Stopped == queue # <<>> /\ Head(queue).kind = "stopped"

\* C26: for each gap the generator has waited out, its out-edge has been
\* handed exactly one request, created at that instant: the k-th has id k,
\* initial_time the time the k-th gap ended, and the generator hop of
\* that time as its history.
C26_OneRequestPerGap ==
    gen_config.runner = "event_arrival" =>
       /\ Len(received) = Len(elapsed)
       /\ \A k \in 1..Len(received) :
             /\ received[k].id = k
             /\ received[k].initial_time = elapsed[k]
             /\ received[k].history = <<Hop("generator", "gen-1", elapsed[k])>>

\* The time of the k-th arrival of a gap list
RECURSIVE ArrivalTime(_, _)
ArrivalTime(gaps, k) == IF k = 0 THEN 0 ELSE ArrivalTime(gaps, k - 1) + gaps[k]

\* C27: the run stops with the clock at total_simulation_time, and no
\* event scheduled for that time is executed: every arrival that took
\* place did so strictly before the horizon and is counted, the events
\* left when the run returns are those of the horizon or later, and of a
\* scripted gap list exactly the arrivals strictly before the horizon
\* have taken place.
C27_StopsAtHorizon ==
    /\ now <= SimulationTime
    /\ \A k \in 1..Len(elapsed) : elapsed[k] < SimulationTime
    /\ gen_config.runner = "arrival_process" => total_requests = Len(elapsed)
    /\ Stopped =>
          /\ now = SimulationTime
          /\ \A i \in 2..Len(queue) : queue[i].t >= SimulationTime
          /\ gen_config.source = "scripted" =>
                Len(elapsed) =
                   Cardinality({k \in 1..Len(gen_config.script) :
                                   ArrivalTime(gen_config.script, k) < SimulationTime})

\* The run has returned with two arrivals counted and the third, due at
\* the horizon, left in the queue.
C27_Witness ==
    /\ Stopped
    /\ gen_config.runner = "arrival_process"
    /\ gen_config.script = <<1, 2, 3>>
    /\ total_requests = 2
    /\ \E i \in 2..Len(queue) : queue[i].kind = "gap" /\ queue[i].t = SimulationTime

\* The windows the sampler has opened, and the gaps it has yielded
Windows == sampler.windows

Yields == sampler.yields

ZeroUsersRun ==
    /\ Stopped
    /\ gen_config.source = "poisson_poisson"
    /\ sampler.done /\ Len(Windows) = 2
    /\ \A i \in 1..Len(Windows) : Windows[i].users = 0
    /\ elapsed = <<>>

\* C29: the collector takes no sample at t = 0; its k-th sample is taken at
\* k * sample_period_s, and every tick appends one value, the gauge as it
\* stands, to the series of each enabled metric of each entity.
Series == {xm \in (Edges \cup {ServerId}) \X (EdgeMetrics \cup ServerMetrics) :
              xm[2] \in DOMAIN enabled_metrics[xm[1]]}

KthSampleAtKPeriods ==
    /\ \A k \in 1..Len(sampled_at) :
          /\ sampled_at[k] = k * sim_settings.sample_period_s
          /\ sampled_at[k] > 0
          /\ sampled_at[k] <= now
    /\ \A xm \in Series :
          Len(enabled_metrics[xm[1]][xm[2]]) = Len(sampled_at)

TickAppendsGauges ==
    sampled_at' # sampled_at =>
        \A xm \in Series :
            enabled_metrics'[xm[1]][xm[2]] =
                Append(enabled_metrics[xm[1]][xm[2]], Gauge(xm[1], xm[2]))

C30_TimeBaseIsSampleTime ==
    \A xm \in Series :
        LET values == enabled_metrics[xm[1]][xm[2]]
            times == TimeBase(Len(values))
        IN  \A k \in 1..Len(values) :
                /\ times[k] = k * sim_settings.sample_period_s
                /\ times[k] = sampled_at[k]

\* C31: a payload is rejected if and only if its outage windows leave an
\* instant at which every server of the topology is down; staggered
\* windows, one server up at the instant the other goes down, are accepted.
DownAt(server, t) ==
    \E i \in DOMAIN payload.events :
        /\ payload.events[i].target_id = server
        /\ payload.events[i].t_start <= t
        /\ t < payload.events[i].t_end

AllDownAt(t) == \A server \in Range(payload.servers) : DownAt(server, t)

C31_RejectedIffAllDown ==
    verdict.payload # "pending" =>
        (verdict.payload = "rejected" <=> \E t \in 0..MaxT : AllDownAt(t))

\* C32: a topology in which two nodes share an id, whatever their kinds,
\* or in which two edges share an id, is rejected.
SharedNodeId ==
    \/ Duplicate(payload.servers \o <<payload.client>>) # {}
    \/ /\ payload.load_balancer # NoLb
       /\ payload.load_balancer.id \in
              Range(payload.servers) \cup {payload.client}

SharedEdgeId ==
    \E i, j \in DOMAIN payload.edges :
        i # j /\ payload.edges[i].id = payload.edges[j].id

Accepted ==
    verdict = [nodes |-> "accepted", graph |-> "accepted",
               payload |-> "accepted"]

C32_SharedIdsRejected == (SharedNodeId \/ SharedEdgeId) => ~Accepted

\* C33: when no request completed, reading the results does not fail:
\* the latency stats are empty, the throughput series has no timestamps,
\* and the sampled metrics are empty when no server or edge was built.
C33_EmptyRunReadsEmpty ==
    rqs_clock = <<>> =>
        /\ raised = "none"
        /\ returned.latency_stats \in {<<>>, <<{}>>}
        /\ returned.throughput_series # <<>> =>
               returned.throughput_series[1].timestamps = <<>>
        /\ entities = {} => returned.sampled_metrics \in {<<>>, <<{}>>}

\* C34: with a fixed seed, two runs of the same payload see the same
\* events in the same order and end with the same results, every draw
\* taken from the one seeded stream in the order of the steps.
Steps(w) == Len(w.sampler.draws) + Len(w.elapsed)

Over(w) == w.queue # <<>> /\ Head(w.queue).kind = "stopped"

SeedsMatter ==
    /\ runs # <<>>
    /\ seeds[1] # seeds[2]
    /\ Over(runs[1]) /\ Over(runs[2])
    /\ runs[1].elapsed # runs[2].elapsed

\* C35: in the full pipeline, where the edge from the generator records
\* its hop before the client records its own, no request is completed on
\* its first arrival at the client: it is forwarded, and every request in
\* the completed store has a server hop in its history.
FromGeneratorEdge(r) ==
    Len(rqs[r].history) >= 2 /\ rqs[r].history[2].id = "g-c"

C35_NoCompletionOnFirstArrival ==
    \A r \in Requests :
        FromGeneratorEdge(r) /\ (\E i \in DOMAIN completed_box :
                                    completed_box[i] = r)
            => \E k \in DOMAIN rqs[r].history :
                   rqs[r].history[k].type = "server"

\* C36: the simulation time of the k-th arrival, the sum of the first k
\* gaps, is the sampler's clock at its k-th yield, so every arrival falls
\* inside the window whose rate produced its gap.
C36_ArrivalsOnSamplerClock ==
    gen_config.source = "poisson_poisson" =>
        \A k \in 1..Len(elapsed) :
            /\ elapsed[k] = Yields[k].at
            /\ LET win == Windows[Yields[k].window]
               IN  win.start <= elapsed[k]
                   /\ elapsed[k] < win.start + SamplingWindow

\* RequestState.latency: None while finish_time is None
latency(rq) ==
    IF rq.finish_time = <<>> THEN <<>>
    ELSE <<rq.finish_time[1] - rq.history[1].t>>

\* C37: a request dropped on an edge is never treated as completed: its
\* finish_time stays unset, its latency stays undefined and it is never in
\* the completed store.
C37_DroppedNeverCompleted ==
    \A r \in Requests :
        Dropped(r) =>
            /\ rqs[r].finish_time = <<>>
            /\ latency(rqs[r]) = <<>>
            /\ ~InSeq(r, completed_box)

\* Every endpoint of the server asks for no more RAM than the server has.
RamFits ==
    \A i \in 1..Len(server_config.endpoints) :
        TotalRam(server_config.endpoints[i]) <= server_config.ram_mb

\* env.run() has no event left to process: what waits now waits forever.
RunEnded == queue = <<>>

\* env.run() steps as long as the event queue holds an event: weak fairness
\* of Next, whose steps are enabled exactly when the queue is not empty.
RunsOn == []<>RunEnded \/ []<><<Next>>_vars

\* A handler that was spawned ends by forwarding its request.
EveryHandlerFinishes ==
    \A h \in Requests :
        (handlers[h].pc # "new") ~> (handlers[h].pc = "done")

\* C38: when every endpoint's total RAM is at most the RAM capacity of its
\* server, no set of handlers is left waiting for RAM or CPU: when the run
\* has nothing left to process, every handler that started has finished
\* and forwarded its request.
C38_HandlersFinish ==
    (RamFits /\ RunEnded) =>
        /\ Waiting("RAM") = {} /\ Waiting("CPU") = {}
        /\ \A h \in Requests :
              handlers[h].pc # "new" =>
                  /\ handlers[h].pc = "done"
                  /\ \E i \in 1..Len(sink) : sink[i].id = h

\* On containers that start full every run goes on to that end.
HandlersFinishWhenFull ==
    (RunsOn /\ RamFits /\ builder = "server_containers")
        => EveryHandlerFinishes

\* C39: on validated input no handler blocks forever on its RAM get, since
\* the summed necessary_ram of every endpoint is at most ram_mb of its
\* server.
C39_NoRamStallOnValidInput ==
    (Server_valid(server_config) /\ RunEnded) => Waiting("RAM") = {}

\* A handler in the RAM get queue is served at some time where the
\* endpoints fit.
RamGetReturnsWhereFits ==
    (RunsOn /\ builder = "server_containers" /\ RamFits) =>
        \A h \in Requests :
            (handlers[h].pc = "ram_get") ~> (handlers[h].pc # "ram_get")

\* The handlers that hold a CPU token, and those inside a CPU step.
CpuHolders == {h \in Requests : handlers[h].held.CPU > 0}

InCpuStep == {h \in Requests : handlers[h].pc = "cpu_run"}

CpuTokensAccounted ==
    /\ Cardinality(InCpuStep) <= server_config.cpu_cores
    /\ Cardinality(CpuHolders) = server_config.cpu_cores - res.CPU.level

\* C40: at most cpu_cores handlers are inside a CPU step, and the number of
\* handlers that hold a CPU token is cpu_cores minus the level of the CPU
\* container.
C40_CpuTokensAccounted == CpuTokensAccounted

\* The same on containers that start full.
CpuTokensAccountedWhenFull ==
    builder = "server_containers" => CpuTokensAccounted

TypeOK ==
    /\ now \in Nat
    /\ \A h \in Requests : handlers[h].pc \in
          {"new", "start", "ram_get", "cpu_get", "cpu_run", "cpu_put",
           "io_wait", "ram_put", "done"}
====
